---- MODULE Spec2Model ----
(***************************************************************************)
(* Model of the TapLink blind-hashing client (taplink-go): the statistics  *)
(* store, the host selection of the configuration, the retry loop of       *)
(* Client.getFromAPI and the salt exchange built on top of it.             *)
(*                                                                         *)
(* Byte strings and character strings are sequences.  A response body is   *)
(* a record: either plain text (a sequence of characters) or a JSON        *)
(* object with the four fields of saltResponse.  An error value is a       *)
(* record with a kind and, for errors.New(...), the message.               *)
(***************************************************************************)
EXTENDS Integers, Sequences, FiniteSets, TLC

\* ------------------------------------------------------------------ bounds
MaxStored == 1          \* a call or a direct Add* starts only with fewer stored events
MaxClock == 1           \* a call starts only while the clock is below this
MaxVersion == 2         \* the data pool settings are rotated up to this version
MaxEvents == 2          \* ranking: events are recorded only while fewer are stored
MaxMinutes == 1         \* ranking: minutes that may elapse
MaxLegacy == 3          \* legacy client: a call starts only while fewer requests are counted

\* ------------------------------------------------------- program constants
DefaultRetryLimit == 3
RetryDelay == 1
maxResponseSize == 512000
DefaultHost == "api.taplink.co"
unknownCode == 999
Minute == 60            \* time.Minute, in units of RetryDelay
LegacyRetryLimit == 3   \* RetryLimit of the legacy client

\* ------------------------------------------------------------ input domains
Hosts == {"foo.com", "bar.com"}
AllHosts == Hosts \cup {DefaultHost}
DirectHosts == {"foo.com"}
ServerLists == {<<"foo.com">>, <<"foo.com", "bar.com">>}
Chars == {" ", "e", "f"}
TextBodies == {<<>>, <<" ">>, <<"e">>, <<" ", "f", " ">>}
Latencies == {1, 3}

\* ------------------------------------------------------------------ values
Text(s) == [kind |-> "text", text |-> s, s2 |-> <<>>, vid |-> 0,
            new_s2 |-> <<>>, new_vid |-> 0]
NoBody == Text(<<>>)
BodyLen(b) == IF b.kind = "text" THEN Len(b.text) ELSE 1 + Len(b.s2) + Len(b.new_s2)

NilErr == [kind |-> "nil", msg |-> NoBody]
TimeoutErr == [kind |-> "timeout", msg |-> NoBody]
TransportErr == [kind |-> "transport", msg |-> NoBody]
ErrUnexpectedEOF == [kind |-> "unexpectedEOF", msg |-> NoBody]
ErrorsNew(m) == [kind |-> "msg", msg |-> m]

RECURSIVE TrimLeft(_)
TrimLeft(s) == IF s # <<>> /\ Head(s) = " " THEN TrimLeft(Tail(s)) ELSE s
RECURSIVE TrimRight(_)
TrimRight(s) == IF s # <<>> /\ s[Len(s)] = " "
                THEN TrimRight(SubSeq(s, 1, Len(s) - 1)) ELSE s
TrimSpace(b) == IF b.kind = "text" THEN Text(TrimRight(TrimLeft(b.text))) ELSE b

LimitReader(b, n) == IF b.kind = "text" /\ Len(b.text) > n
                     THEN Text(SubSeq(b.text, 1, n)) ELSE b

\* -------------------------------------------------------- statistics store
newHostStatistics == [errors |-> <<>>, timeouts |-> <<>>, latency |-> <<>>]

\* variant: the record of the host is made anew on every call
init_Reset(st, h) == [x \in (DOMAIN st) \cup {h} |->
                        IF x = h THEN newHostStatistics ELSE st[x]]

\* statistics.init(host)
init(st, h) == IF h \in DOMAIN st THEN st
               ELSE [x \in (DOMAIN st) \cup {h} |->
                        IF x = h THEN newHostStatistics ELSE st[x]]

RECURSIVE SetServersFrom(_, _)
SetServersFrom(st, servers) ==
    IF servers = <<>> THEN st
    ELSE SetServersFrom(init(st, Head(servers)), Tail(servers))

\* AddSuccess, AddError, AddTimeout: return at once unless enabled, else
\* initialise the host's record and append the event
AddSuccessTo(st, en, h, lat, t) ==
    IF ~en THEN st
    ELSE [init(st, h) EXCEPT ![h].latency = Append(@, [ts |-> t, latency |-> lat])]

\* variant: AddError without the enabled test
AddErrorTo_Always(st, en, h, code, t) ==
    [init(st, h) EXCEPT ![h].errors = Append(@, [ts |-> t, code |-> code])]

\* AddError(host, code)
AddErrorTo(st, en, h, code, t) ==
    IF ~en THEN st
    ELSE [init(st, h) EXCEPT ![h].errors = Append(@, [ts |-> t, code |-> code])]

AddTimeoutTo(st, en, h, t) ==
    IF ~en THEN st
    ELSE [init(st, h) EXCEPT ![h].timeouts = Append(@, [ts |-> t])]

\* counts as read through Get(host): a host without a record reads as empty
HostRecord(st, h) == IF h \in DOMAIN st THEN st[h] ELSE newHostStatistics
ErrorsLen(st, h) == Len(HostRecord(st, h).errors)
ErrorsCount(st, h, code) ==
    Cardinality({i \in 1..Len(HostRecord(st, h).errors) :
                    HostRecord(st, h).errors[i].code = code})
Timeouts(st, h) == Len(HostRecord(st, h).timeouts)
Requests(st, h) == Len(HostRecord(st, h).latency)

RECURSIVE SumOver(_, _)
SumOver(S, f) == IF S = {} THEN 0
                 ELSE LET x == CHOOSE y \in S : TRUE
                      IN f[x] + SumOver(S \ {x}, f)
TotalErrors(st) == SumOver(DOMAIN st, [h \in DOMAIN st |-> Len(st[h].errors)])
TotalTimeouts(st) == SumOver(DOMAIN st, [h \in DOMAIN st |-> Len(st[h].timeouts)])
TotalSuccesses(st) == SumOver(DOMAIN st, [h \in DOMAIN st |-> Len(st[h].latency)])
TotalEvents(st) == TotalErrors(st) + TotalTimeouts(st) + TotalSuccesses(st)

\* ------------------------------------------------------------------ ranking
SumSeq(q) == SumOver(DOMAIN q, q)

\* variant: the quotient is rounded up
Avg_RoundedUp(l) == IF Len(l) = 0 THEN 0 ELSE (SumSeq(l) + Len(l) - 1) \div Len(l)

\* Latency.Avg
Avg(l) == IF Len(l) = 0 THEN 0 ELSE SumSeq(l) \div Len(l)

\* hostStatistics.Latency
Latency(hs) == [i \in 1..Len(hs.latency) |-> hs.latency[i].latency]

InWindow(e, u) == ~(e.ts < u)

\* variant: a positive window is not turned into a negative offset
Last_WindowNotNegated(hs, window, t) ==
    LET u == t + window
        Keep(e) == InWindow(e, u)
    IN [errors |-> SelectSeq(hs.errors, Keep), timeouts |-> SelectSeq(hs.timeouts, Keep),
        latency |-> SelectSeq(hs.latency, Keep)]

\* hostStatistics.Last(last) evaluated at time t
Last(hs, window, t) ==
    LET u == t - (IF window > 0 THEN window ELSE -window)
        Keep(e) == InWindow(e, u)
    IN [errors |-> SelectSeq(hs.errors, Keep), timeouts |-> SelectSeq(hs.timeouts, Keep),
        latency |-> SelectSeq(hs.latency, Keep)]

\* variant: the timeouts are left out of the failures
ErrorRate_TimeoutsLeftOut(hs) ==
    LET errCt == Len(hs.errors)
        totalCt == Len(hs.latency) + Len(hs.timeouts) + Len(hs.errors)
    IN IF errCt = 0 THEN [num |-> 0, den |-> 1] ELSE [num |-> errCt, den |-> totalCt]

\* hostStatistics.ErrorRate, as the fraction errCt / totalCt (0 / 1 without errors)
ErrorRate(hs) ==
    LET errCt == Len(hs.timeouts) + Len(hs.errors)
        totalCt == Len(hs.latency) + Len(hs.timeouts) + Len(hs.errors)
    IN IF errCt = 0 THEN [num |-> 0, den |-> 1] ELSE [num |-> errCt, den |-> totalCt]

\* the comparison of two float64 quotients of small integers
RateLess(a, b) == a.num * b.den < b.num * a.den

\* the comparison the comment of Hosts describes: the latency decides only
\* between equal error rates
Less_TieBreak(a, b, t) ==
    LET im == Last(a, Minute, t)
        jm == Last(b, Minute, t)
    IN \/ RateLess(ErrorRate(im), ErrorRate(jm))
       \/ /\ ~RateLess(ErrorRate(jm), ErrorRate(im))
          /\ Avg(Latency(im)) < Avg(Latency(jm))

\* hostFailRate.Less on two elements, evaluated at time t
Less(a, b, t) ==
    LET im == Last(a, Minute, t)
        jm == Last(b, Minute, t)
    IN RateLess(ErrorRate(im), ErrorRate(jm)) \/ Avg(Latency(im)) < Avg(Latency(jm))

\* hostStatistics.CopyOf: the record of host h with its events, as a value
CopyOf(st, h) == [host |-> h, errors |-> st[h].errors, timeouts |-> st[h].timeouts,
                  latency |-> st[h].latency]

\* variant: the element at j is copied over the one at i only
Swap_Overwrite(l, i, j) == [l EXCEPT ![i] = l[j]]

\* hostFailRate.Swap
Swap(l, i, j) == [l EXCEPT ![i] = l[j], ![j] = l[i]]

\* sort.Sort on a short slice: insertion sort with Less and Swap
RECURSIVE InsertDown(_, _, _)
InsertDown(l, j, t) ==
    IF j > 1 /\ Less(l[j], l[j - 1], t) THEN InsertDown(Swap(l, j, j - 1), j - 1, t) ELSE l
RECURSIVE InsertionSort(_, _, _)
InsertionSort(l, i, t) ==
    IF i > Len(l) THEN l ELSE InsertionSort(InsertDown(l, i, t), i + 1, t)

\* the orders in which a range over the map can visit the hosts
Orders(S) == {o \in [1..Cardinality(S) -> S] : \A i, j \in DOMAIN o : o[i] = o[j] => i = j}

\* statistics.Hosts when the map is visited in the given order, at time t
StatsHosts(st, order, t) ==
    LET l == [i \in DOMAIN order |-> CopyOf(st, order[i])]
        sorted == InsertionSort(l, 2, t)
    IN [i \in DOMAIN sorted |-> sorted[i].host]

\* ------------------------------------------------------------ configuration
Servers(opt) == IF opt.isNil THEN <<>> ELSE opt.Servers

\* variant: the index is taken one further
Host_OffByOne(opt, n) ==
    LET hosts == Servers(opt)
    IN IF Len(hosts) = 0 THEN DefaultHost
       ELSE IF Len(hosts) = 1 THEN hosts[1]
       ELSE hosts[((n + 1) % Len(hosts)) + 1]

\* Config.Host(attempts)
Host(opt, n) ==
    LET hosts == Servers(opt)
    IN IF Len(hosts) = 0 THEN DefaultHost
       ELSE IF Len(hosts) = 1 THEN hosts[1]
       ELSE hosts[(n % Len(hosts)) + 1]

\* ---------------------------------------------------------------- encoding
Json(s2, vid, new_s2, new_vid) ==
    [kind |-> "json", text |-> <<>>, s2 |-> s2, vid |-> vid,
     new_s2 |-> new_s2, new_vid |-> new_vid]

hextable == <<"0", "1", "2", "3", "4", "5", "6", "7", "8", "9",
              "a", "b", "c", "d", "e", "f">>
upperhex == <<"0", "1", "2", "3", "4", "5", "6", "7", "8", "9",
              "A", "B", "C", "D", "E", "F">>

\* hex.EncodeToString
RECURSIVE EncodeToString(_)
EncodeToString(b) ==
    IF b = <<>> THEN <<>>
    ELSE <<hextable[(Head(b) \div 16) + 1], hextable[(Head(b) % 16) + 1]>>
         \o EncodeToString(Tail(b))

IsHexChar(c) == \E i \in 1..16 : hextable[i] = c \/ upperhex[i] = c
fromHexChar(c) == (CHOOSE i \in 1..16 : hextable[i] = c \/ upperhex[i] = c) - 1

ErrLength == [kind |-> "hex.ErrLength", msg |-> NoBody]
InvalidByteError == [kind |-> "hex.InvalidByteError", msg |-> NoBody]
SyntaxError == [kind |-> "json.SyntaxError", msg |-> NoBody]

RECURSIVE DecodePairs(_)
DecodePairs(s) ==
    IF s = <<>> THEN <<>>
    ELSE <<fromHexChar(s[1]) * 16 + fromHexChar(s[2])>> \o DecodePairs(SubSeq(s, 3, Len(s)))

\* hex.DecodeString: the bytes and the error
DecodeString(s) ==
    IF Len(s) % 2 = 1 THEN [bytes |-> <<>>, err |-> ErrLength]
    ELSE IF \E i \in 1..Len(s) : ~IsHexChar(s[i])
         THEN [bytes |-> <<>>, err |-> InvalidByteError]
    ELSE [bytes |-> DecodePairs(s), err |-> NilErr]

\* fmt.Sprintf("%d", v) for v > 0
RECURSIVE Decimal(_)
Decimal(v) == IF v < 10 THEN <<hextable[v + 1]>>
              ELSE Decimal(v \div 10) \o <<hextable[(v % 10) + 1]>>

\* variant: the version is never put in the path
VersionString_Empty(v) == <<>>

\* Version.String
VersionString(v) == IF v = 0 THEN <<>> ELSE Decimal(v)

\* hmac.New(sha512.New, key) over msg, as an injective symbolic digest: no two
\* (key, message) pairs collide, and a digest differs from the bytes it is made of
HMAC(key, msg) == <<256 + Len(key)>> \o key \o msg

\* bytes.Equal(a, b): slices of different length are unequal at once, slices
\* of one length are compared in order up to the first difference
RECURSIVE FirstDiff(_, _, _)
FirstDiff(a, b, i) == IF i > Len(a) \/ a[i] # b[i] THEN i ELSE FirstDiff(a, b, i + 1)
Examined(a, b) ==
    IF Len(a) # Len(b) THEN 0
    ELSE IF FirstDiff(a, b, 1) > Len(a) THEN Len(a) ELSE FirstDiff(a, b, 1)
Equal(a, b) == Len(a) = Len(b) /\ FirstDiff(a, b, 1) > Len(a)

\* json.Unmarshal(bodyBytes, &sr)
Unmarshal(b) == IF b.kind = "json" THEN [sr |-> b, err |-> NilErr]
                ELSE [sr |-> Json(<<>>, 0, <<>>, 0), err |-> SyntaxError]

\* ------------------------------------------------------------------- state
VARIABLES
    enabled,      \* statistics.enabled
    stats,        \* statistics.stats: host -> event sequences
    options,      \* Config.options (server list, last-modified)
    RetryLimit,   \* the package variable RetryLimit (a setting from 1 to its default)
    now,          \* wall clock, in units of RetryDelay
    pc,           \* position of the caller: idle, loop, returned, done
    call,         \* operation in progress and its arguments
    attempts,     \* getFromAPI: attempts
    resp,         \* getFromAPI: resp (nil or the last response's status)
    respBody,     \* getFromAPI: respBody (named result)
    err,          \* getFromAPI: err (named result)
    last,         \* the HTTP exchange of the latest attempt, as the transport produced it
    trace,        \* the attempts of the call in progress: host, slept-before, exchange
    sleeps,       \* time.Sleep(RetryDelay) executions of the call in progress
    stats0,       \* the store as it was when the call in progress started
    t0,           \* the clock when the call in progress started
    latest,       \* the server: version of its latest data pool settings
    result,       \* what NewPassword / VerifyPassword returned to its caller
    stored,       \* the caller's data store: hash1, hash2 and version of NewPassword
    ranked,       \* what statistics.Hosts() returned to its caller
    picked,       \* what Config.Host(i) returned to its caller, with i
    held,         \* the HostStats a caller was given and keeps
    load,         \* Config.Load in progress: its position and the list being decoded
    seen,         \* what a concurrent reader of the configuration observed
    legacy,       \* the legacy Client: stats flag, counters, latencies, call position
    locks,        \* holders of statistics.mu and of each hostStatistics.mu
    threads,      \* goroutines using the store: operation, host and position
    asked,        \* the Last(window) call whose result the caller holds
    host,         \* getFromAPI: host, the server chosen for the attempt in progress
    issued,       \* Add* calls that returned with statistics enabled, by host and kind
    local,        \* per goroutine: the slice value read for the append in progress
    loaded,       \* what the last Config.Load returned, and the configuration before it
    avg           \* the last call of Latency.Avg: the slice and the value returned

vars == <<enabled, stats, options, RetryLimit, now, pc, call, attempts,
          resp, respBody, err, last, trace, sleeps, stats0, t0,
          latest, result, stored, ranked, picked, held,
          load, seen, legacy, locks, threads, asked,
          host, issued, local, loaded, avg>>

storeVars == <<enabled, stats>>
frameVars == <<call, attempts, resp, respBody, err, last, trace, sleeps, stats0, t0>>
protocolVars == <<latest, result, stored>>
rankVars == <<ranked, picked, held>>
moreVars == <<host, issued, local, loaded, avg>>
auxVars == <<load, seen, legacy, locks, threads, asked, moreVars>>

\* --------------------------------------------------------- HTTP exchanges
\* What HTTPClient.Do and the read of the body produce for one attempt.
NoExchange == [doErr |-> "nil", hasResp |-> FALSE, status |-> 0, body |-> NoBody,
               readErr |-> FALSE, latency |-> 0]
TimeoutExchange == [NoExchange EXCEPT !.doErr = "timeout"]
TransportExchange == [NoExchange EXCEPT !.doErr = "transport"]
\* the redirect policy failed: Do returns the last response, body closed, and an error
RedirectExchange == [NoExchange EXCEPT !.doErr = "transport", !.hasResp = TRUE,
                                       !.status = 302, !.readErr = TRUE]
Response(s, b, l) == [NoExchange EXCEPT !.hasResp = TRUE, !.status = s, !.body = b,
                                        !.latency = l]
BrokenResponse(s, b) == [NoExchange EXCEPT !.hasResp = TRUE, !.status = s, !.body = b,
                                           !.readErr = TRUE, !.latency = 1]

Exchanges ==
    {TimeoutExchange, TransportExchange, RedirectExchange}
    \cup {Response(200, Text(b), 1) : b \in TextBodies}
    \cup {Response(200, Text(<<"e">>), 3), Response(302, Text(<<"e">>), 1)}
    \cup {Response(404, Text(b), 1) : b \in TextBodies \ {<<"e">>}}
    \cup {Response(500, Text(<<"e">>), 1)}
    \cup {Response(503, Text(b), 1) : b \in {<<>>, <<" ", "f", " ">>}}
    \cup {BrokenResponse(200, Text(<<"e">>))}

\* ------------------------------------------------------------------- server
\* The TapLink service as the tests and the comment of getSalt describe it:
\* one salt per (hash, version), the latest version for an empty version, the
\* latest salt and version in addition when an older version is asked for.
testHashBytes == <<10, 171>>
errRespHash == <<"e">>
errRespVersion == <<"f">>

\* hash inputs: none, too short, and two of the accepted length
HashInputs == {<<>>, <<10>>, testHashBytes, <<171, 10>>}

RECURSIVE ParseVersion(_)
ParseVersion(s) ==
    IF s = <<>> THEN 0
    ELSE ParseVersion(SubSeq(s, 1, Len(s) - 1)) * 10 + fromHexChar(s[Len(s)])

ServerSalt(h, v) == <<v>> \o h

URI(c) == [hash |-> EncodeToString(c.hash), version |-> VersionString(c.versionID)]

ServerAnswer(uri, cur) ==
    LET d == DecodeString(uri.hash)
        v == ParseVersion(uri.version)
    IN IF d.err # NilErr \/ Len(d.bytes) # Len(testHashBytes)
       THEN Response(400, Text(errRespHash), 1)
       ELSE IF v = 0 \/ v = cur
       THEN Response(200, Json(EncodeToString(ServerSalt(d.bytes, cur)), cur, <<>>, 0), 1)
       ELSE IF v < cur
       THEN Response(200, Json(EncodeToString(ServerSalt(d.bytes, v)), v,
                               EncodeToString(ServerSalt(d.bytes, cur)), cur), 1)
       ELSE Response(400, Text(errRespVersion), 1)

NoResp == 0
NoCall == [op |-> "none", hash |-> <<>>, expected |-> <<>>, versionID |-> 0]
\* Examined: the byte positions the comparison of Hash with the expected hash
\* looked at
NoResult == [isNil |-> TRUE, err |-> NilErr, Matched |-> FALSE, VersionID |-> 0,
             NewVersionID |-> 0, Hash |-> <<>>, NewHash |-> <<>>, Examined |-> 0]
\* answered: the stored values were computed from the server's own answer
NoStored == [ok |-> FALSE, hash |-> <<>>, Hash |-> <<>>, VersionID |-> 0,
             answered |-> FALSE]

TraceEntry(h, slept, o) ==
    [host |-> h, slept |-> slept, doErr |-> o.doErr, hasResp |-> o.hasResp,
     status |-> o.status, readErr |-> o.readErr, empty |-> (BodyLen(o.body) = 0)]

NoPick == [i |-> 0, host |-> ""]
\* a HostStats value: the pointer to the record of a host in the map, or a
\* record of its own; taken is what it reported when it was returned
NoHostStats == [kind |-> "none", host |-> "", own |-> newHostStatistics,
                taken |-> newHostStatistics]

\* Config.Load at rest; new is the list being decoded, i the elements decoded
\* so far, old the list the load started from
NoLoad == [pc |-> "idle", new |-> <<>>, i |-> 0, old |-> <<>>]
\* nothing observed yet by the reader of the configuration
NoSeen == [valid |-> FALSE, servers |-> <<>>, host |-> "", i |-> 0,
           before |-> <<>>, after |-> <<>>]
\* the legacy Client as New returns it; of its latest getSalt: the requests
\* sent, those for which Do returned an error, those of them without a
\* response, the error counter and the stats flag at its start, whether it
\* panicked, whether it returned an error
NoPct == [called |-> FALSE, panic |-> FALSE, value |-> 0]
NewLegacy == [stats |-> FALSE, reqCt |-> 0, reqErrCt |-> 0, reqLatency |-> <<>>,
              pc |-> "idle", attempts |-> 0, pct |-> NoPct,
              requests |-> 0, failed |-> 0, plain |-> 0, errs0 |-> 0, on |-> FALSE,
              panicked |-> FALSE, err |-> FALSE]
\* a sync.RWMutex nobody holds: the writer and the set of readers
Free == [w |-> "", r |-> {}]
NoLocks == [mu |-> Free, hmu |-> [h \in Hosts |-> Free]]
Goroutines == {"g1", "g2"}
\* a goroutine between two operations; ptr is the host whose HostStats it got from Get
Idle == [pc |-> "idle", op |-> "", host |-> "", ptr |-> ""]
NoAsk == [host |-> "", window |-> 0, full |-> newHostStatistics]
\* the operations of statistics that append an event
AddOps == {"AddSuccess", "AddError", "AddTimeout"}
\* no Add* call has returned yet
NoneIssued == [h \in Hosts |-> [k \in AddOps |-> 0]]
\* time.Time{} and time.Unix(sec, 0)
ZeroTime == [zero |-> TRUE, unix |-> 0]
Unix(sec) == [zero |-> FALSE, unix |-> sec]
\* Config.Load not called yet; servers and modified are what Servers() and
\* LastModified() returned before the call
NoOutcome == [called |-> FALSE, failed |-> FALSE, servers |-> <<>>, modified |-> ZeroTime]
\* Latency.Avg not called yet
NoAvg == [called |-> FALSE, of |-> <<>>, value |-> 0]

\* -------------------------------------------------------------------- Init
NilOptions == [isNil |-> TRUE, Servers |-> <<>>, LastModified |-> 0]

Init ==
    /\ enabled = FALSE
    /\ stats = << >>
    /\ options = NilOptions
    /\ RetryLimit \in 1..DefaultRetryLimit
    /\ now = 0
    /\ pc = "idle"
    /\ call = NoCall
    /\ attempts = 0
    /\ resp = NoResp
    /\ respBody = NoBody
    /\ err = NilErr
    /\ last = NoExchange
    /\ trace = <<>>
    /\ sleeps = 0
    /\ stats0 = << >>
    /\ t0 = 0
    /\ latest = 1
    /\ result = NoResult
    /\ stored = NoStored
    /\ ranked = <<>>
    /\ picked = NoPick
    /\ held = NoHostStats
    /\ load = NoLoad
    /\ seen = NoSeen
    /\ legacy = NewLegacy
    /\ locks = NoLocks
    /\ threads = [g \in Goroutines |-> Idle]
    /\ asked = NoAsk
    /\ host = ""
    /\ issued = NoneIssued
    /\ local = [g \in Goroutines |-> <<>>]
    /\ loaded = NoOutcome
    /\ avg = NoAvg

\* ------------------------------------------------------- statistics actions
Enable ==
    /\ pc = "idle"
    /\ enabled' = TRUE
    /\ UNCHANGED <<auxVars, rankVars, stats, options, RetryLimit, now, pc, frameVars, protocolVars>>

\* variant: Disable also drops the recorded events
Disable_Clears ==
    /\ pc = "idle"
    /\ enabled' = FALSE
    /\ stats' = << >>
    /\ UNCHANGED <<auxVars, rankVars, options, RetryLimit, now, pc, frameVars, protocolVars>>

\* statistics.Disable
Disable ==
    /\ pc = "idle"
    /\ enabled' = FALSE
    /\ UNCHANGED <<auxVars, rankVars, stats, options, RetryLimit, now, pc, frameVars, protocolVars>>

DirectAllowed == pc = "idle" /\ TotalEvents(stats) < MaxStored

AddSuccess(h, lat) ==
    /\ DirectAllowed
    /\ stats' = AddSuccessTo(stats, enabled, h, lat, now)
    /\ UNCHANGED <<auxVars, rankVars, enabled, options, RetryLimit, now, pc, frameVars, protocolVars>>

AddError(h, code) ==
    /\ DirectAllowed
    /\ stats' = AddErrorTo(stats, enabled, h, code, now)
    /\ UNCHANGED <<auxVars, rankVars, enabled, options, RetryLimit, now, pc, frameVars, protocolVars>>

AddTimeout(h) ==
    /\ DirectAllowed
    /\ stats' = AddTimeoutTo(stats, enabled, h, now)
    /\ UNCHANGED <<auxVars, rankVars, enabled, options, RetryLimit, now, pc, frameVars, protocolVars>>

Get(h) ==
    /\ pc = "idle"
    /\ stats' = init(stats, h)
    /\ UNCHANGED <<auxVars, rankVars, enabled, options, RetryLimit, now, pc, frameVars, protocolVars>>

\* Config.Load: fetch the options and initialise a record for each server
Load(ok, servers) ==
    /\ pc = "idle"
    /\ IF ok
       THEN /\ options' = [isNil |-> FALSE, Servers |-> servers, LastModified |-> 1]
            /\ stats' = SetServersFrom(stats, servers)
       ELSE /\ options' = IF options.isNil THEN [NilOptions EXCEPT !.isNil = FALSE]
                          ELSE options
            /\ stats' = stats
    /\ UNCHANGED <<auxVars, rankVars, enabled, RetryLimit, now, pc, frameVars, protocolVars>>

\* ------------------------------------------------------------- getFromAPI
CallGetFromAPI ==
    /\ pc = "idle"
    /\ TotalEvents(stats) < MaxStored
    /\ now < MaxClock
    /\ pc' = "loop"
    /\ call' = [NoCall EXCEPT !.op = "getFromAPI"]
    /\ attempts' = 0
    /\ resp' = NoResp
    /\ respBody' = NoBody
    /\ err' = NilErr
    /\ last' = NoExchange
    /\ trace' = <<>>
    /\ sleeps' = 0
    /\ stats0' = stats
    /\ t0' = now
    /\ UNCHANGED <<auxVars, rankVars, enabled, stats, options, RetryLimit, now, protocolVars>>

DoErr(o) == IF o.doErr = "timeout" THEN TimeoutErr
            ELSE IF o.doErr = "transport" THEN TransportErr
            ELSE NilErr

\* variant: the loop test admits one attempt too many
LoopCond_OffByOne(n, limit) == n <= limit

\* for attempts < RetryLimit
LoopCond(n, limit) == n < limit

\* variant: the first attempt is delayed too
Sleeps_Always(n) == n >= 0

\* if attempts > 0 { time.Sleep(RetryDelay) }
Sleeps(n) == n > 0

\* ioutil.ReadAll(io.LimitReader(resp.Body, maxResponseSize)): the bytes read
ReadAll(o) == LimitReader(o.body, maxResponseSize)

\* variant: no timeout case, a timeout is an error without a response
Branch_NoTimeoutCase(o) ==
    IF ~o.hasResp THEN "noResponse"
    ELSE IF o.readErr \/ BodyLen(ReadAll(o)) = 0 THEN "badBody"
    ELSE IF o.status >= 500 THEN "serverError"
    ELSE IF o.status >= 400 THEN "clientError"
    ELSE "ok"

\* the two switch statements and the read check of the loop body, in order
Branch(o) ==
    IF o.doErr = "timeout" THEN "timeout"
    ELSE IF ~o.hasResp THEN "noResponse"
    ELSE IF o.readErr \/ BodyLen(ReadAll(o)) = 0 THEN "badBody"
    ELSE IF o.status >= 500 THEN "serverError"
    ELSE IF o.status >= 400 THEN "clientError"
    ELSE "ok"

\* variant: a client error falls through to the next iteration like a server error
Continues_ClientErrorRetried(br) == br # "ok"

\* continue (or fall out of the switch) against return
Continues(br) == br \notin {"clientError", "ok"}

\* variant: a failed read is recorded under the status of the response
Record_BadBodyStatus(st, en, h, o, br, t) ==
    IF br = "timeout" THEN AddTimeoutTo(st, en, h, t)
    ELSE IF br = "noResponse" THEN AddErrorTo(st, en, h, unknownCode, t)
    ELSE IF br \in {"badBody", "serverError", "clientError"}
         THEN AddErrorTo(st, en, h, o.status, t)
    ELSE AddSuccessTo(st, en, h, o.latency, t)

\* variant: a server error is recorded under the unknown code
Record_ServerErrorUnknown(st, en, h, o, br, t) ==
    IF br = "timeout" THEN AddTimeoutTo(st, en, h, t)
    ELSE IF br \in {"noResponse", "badBody", "serverError"}
         THEN AddErrorTo(st, en, h, unknownCode, t)
    ELSE IF br = "clientError" THEN AddErrorTo(st, en, h, o.status, t)
    ELSE AddSuccessTo(st, en, h, o.latency, t)

\* variant: the success return records nothing
Record_SuccessUnrecorded(st, en, h, o, br, t) ==
    IF br = "timeout" THEN AddTimeoutTo(st, en, h, t)
    ELSE IF br \in {"noResponse", "badBody"} THEN AddErrorTo(st, en, h, unknownCode, t)
    ELSE IF br \in {"serverError", "clientError"} THEN AddErrorTo(st, en, h, o.status, t)
    ELSE st

\* the call to c.Stats().Add* of each branch
Record(st, en, h, o, br, t) ==
    IF br = "timeout" THEN AddTimeoutTo(st, en, h, t)
    ELSE IF br \in {"noResponse", "badBody"} THEN AddErrorTo(st, en, h, unknownCode, t)
    ELSE IF br \in {"serverError", "clientError"} THEN AddErrorTo(st, en, h, o.status, t)
    ELSE AddSuccessTo(st, en, h, o.latency, t)

\* variant: the failed read leaves the nil error of an empty read in place
ErrAfter_EmptyReadNil(o, br) ==
    IF br \in {"timeout", "noResponse"} THEN DoErr(o)
    ELSE IF br = "badBody" THEN (IF o.readErr THEN ErrUnexpectedEOF ELSE NilErr)
    ELSE IF br \in {"serverError", "clientError"} THEN ErrorsNew(TrimSpace(ReadAll(o)))
    ELSE NilErr

\* the value of err when the iteration ends
ErrAfter(o, br) ==
    IF br \in {"timeout", "noResponse"} THEN DoErr(o)
    ELSE IF br = "badBody" THEN ErrUnexpectedEOF
    ELSE IF br \in {"serverError", "clientError"} THEN ErrorsNew(TrimSpace(ReadAll(o)))
    ELSE NilErr

\* variant: the success return gives back no body
BodyAfter_SuccessNil(o, br, body) ==
    IF br \in {"timeout", "noResponse"} THEN body
    ELSE IF br \in {"clientError", "ok"} THEN NoBody
    ELSE ReadAll(o)

\* the value of respBody when the iteration ends
BodyAfter(o, br, body) ==
    IF br \in {"timeout", "noResponse"} THEN body
    ELSE IF br = "clientError" THEN NoBody
    ELSE ReadAll(o)

\* One iteration of the loop of getFromAPI with exchange o.
Attempt(o) ==
    /\ pc = "loop"
    /\ LoopCond(attempts, RetryLimit)
    /\ LET slept == Sleeps(attempts)
           t == IF slept THEN now + RetryDelay ELSE now
           h == Host(options, attempts)
           br == Branch(o)
       IN /\ now' = t
          /\ sleeps' = IF slept THEN sleeps + 1 ELSE sleeps
          /\ attempts' = attempts + 1
          /\ last' = o
          /\ trace' = Append(trace, TraceEntry(h, slept, o))
          /\ resp' = IF o.hasResp THEN o.status ELSE NoResp
          /\ stats' = Record(stats, enabled, h, o, br, t)
          /\ err' = ErrAfter(o, br)
          /\ respBody' = BodyAfter(o, br, respBody)
          /\ pc' = IF Continues(br) THEN "loop" ELSE "returned"
    /\ UNCHANGED <<auxVars, rankVars, enabled, options, RetryLimit, call, stats0, t0, protocolVars>>

\* the loop condition fails: return the named results
LoopExit ==
    /\ pc = "loop"
    /\ ~LoopCond(attempts, RetryLimit)
    /\ pc' = "returned"
    /\ UNCHANGED <<auxVars, rankVars, enabled, stats, options, RetryLimit, now, frameVars, protocolVars>>

\* the caller of getFromAPI receives (respBody, err)
Finish ==
    /\ pc = "returned"
    /\ call.op = "getFromAPI"
    /\ pc' = "done"
    /\ UNCHANGED <<auxVars, rankVars, enabled, stats, options, RetryLimit, now, frameVars, protocolVars>>

\* the driver goes on to its next operation
Return ==
    /\ pc = "done"
    /\ pc' = "idle"
    /\ call' = NoCall
    /\ attempts' = 0
    /\ resp' = NoResp
    /\ respBody' = NoBody
    /\ err' = NilErr
    /\ last' = NoExchange
    /\ trace' = <<>>
    /\ sleeps' = 0
    /\ stats0' = << >>
    /\ t0' = 0
    /\ result' = NoResult
    /\ UNCHANGED <<auxVars, rankVars, enabled, stats, options, RetryLimit, now, latest, stored>>

\* ---------------------------------------------------------- salt exchange
NilSalt == [isNil |-> TRUE, Salt |-> <<>>, VersionID |-> 0, NewVersionID |-> 0,
            NewSalt |-> <<>>, hasNewSalt |-> FALSE]

\* variant: the two version fields of the answer are taken for each other
getSalt_VersionsSwapped(body, e) ==
    IF e # NilErr THEN [s |-> NilSalt, err |-> e]
    ELSE LET u == Unmarshal(body)
             d == DecodeString(u.sr.s2)
             n == DecodeString(u.sr.new_s2)
             s1 == [NilSalt EXCEPT !.isNil = FALSE, !.Salt = d.bytes,
                                   !.VersionID = u.sr.new_vid, !.NewVersionID = u.sr.vid]
         IN IF u.err # NilErr THEN [s |-> NilSalt, err |-> u.err]
            ELSE IF d.err # NilErr THEN [s |-> s1, err |-> d.err]
            ELSE IF u.sr.new_s2 = <<>> THEN [s |-> s1, err |-> NilErr]
            ELSE [s |-> [s1 EXCEPT !.NewSalt = n.bytes, !.hasNewSalt = (n.err = NilErr)],
                  err |-> n.err]

\* variant: the error of decoding new_s2 is dropped
getSalt_NewSaltErrorDropped(body, e) ==
    IF e # NilErr THEN [s |-> NilSalt, err |-> e]
    ELSE LET u == Unmarshal(body)
             d == DecodeString(u.sr.s2)
             n == DecodeString(u.sr.new_s2)
             s1 == [NilSalt EXCEPT !.isNil = FALSE, !.Salt = d.bytes,
                                   !.VersionID = u.sr.vid, !.NewVersionID = u.sr.new_vid]
         IN IF u.err # NilErr THEN [s |-> NilSalt, err |-> u.err]
            ELSE IF d.err # NilErr THEN [s |-> s1, err |-> d.err]
            ELSE [s |-> [s1 EXCEPT !.NewSalt = n.bytes, !.hasNewSalt = (n.err = NilErr)],
                  err |-> NilErr]

\* getSalt after getFromAPI returned (body, e): the named results (s, err)
getSalt(body, e) ==
    IF e # NilErr THEN [s |-> NilSalt, err |-> e]
    ELSE LET u == Unmarshal(body)
             d == DecodeString(u.sr.s2)
             n == DecodeString(u.sr.new_s2)
             s1 == [NilSalt EXCEPT !.isNil = FALSE, !.Salt = d.bytes,
                                   !.VersionID = u.sr.vid, !.NewVersionID = u.sr.new_vid]
         IN IF u.err # NilErr THEN [s |-> NilSalt, err |-> u.err]
            ELSE IF d.err # NilErr THEN [s |-> s1, err |-> d.err]
            ELSE IF u.sr.new_s2 = <<>> THEN [s |-> s1, err |-> NilErr]
            ELSE [s |-> [s1 EXCEPT !.NewSalt = n.bytes, !.hasNewSalt = (n.err = NilErr)],
                  err |-> n.err]

\* variant: an empty result is returned together with the error
NewPasswordResult_ResultWithError(g, hash1) ==
    IF g.err # NilErr THEN [NoResult EXCEPT !.isNil = FALSE, !.err = g.err]
    ELSE [NoResult EXCEPT !.isNil = FALSE, !.VersionID = g.s.VersionID,
                          !.Hash = HMAC(g.s.Salt, hash1)]

\* the body of NewPassword after getSalt
NewPasswordResult(g, hash1) ==
    IF g.err # NilErr THEN [NoResult EXCEPT !.err = g.err]
    ELSE [NoResult EXCEPT !.isNil = FALSE, !.VersionID = g.s.VersionID,
                          !.Hash = HMAC(g.s.Salt, hash1)]

\* variant: the new hash is computed without the test of Matched
VerifyPasswordResult_NewHashUnmatched(g, hash, expected) ==
    IF g.err # NilErr THEN [NoResult EXCEPT !.err = g.err]
    ELSE LET sum == HMAC(g.s.Salt, hash)
             matched == Equal(sum, expected)
         IN [NoResult EXCEPT
                !.isNil = FALSE, !.VersionID = g.s.VersionID,
                !.NewVersionID = g.s.NewVersionID, !.Hash = sum, !.Matched = matched,
                !.Examined = Examined(sum, expected),
                !.NewHash = IF g.s.VersionID # g.s.NewVersionID /\ g.s.hasNewSalt
                            THEN HMAC(g.s.NewSalt, hash) ELSE <<>>]

\* the body of VerifyPassword after getSalt
VerifyPasswordResult(g, hash, expected) ==
    IF g.err # NilErr THEN [NoResult EXCEPT !.err = g.err]
    ELSE LET sum == HMAC(g.s.Salt, hash)
             matched == Equal(sum, expected)
         IN [NoResult EXCEPT
                !.isNil = FALSE, !.VersionID = g.s.VersionID,
                !.NewVersionID = g.s.NewVersionID, !.Hash = sum, !.Matched = matched,
                !.Examined = Examined(sum, expected),
                !.NewHash = IF matched /\ g.s.VersionID # g.s.NewVersionID /\ g.s.hasNewSalt
                            THEN HMAC(g.s.NewSalt, hash) ELSE <<>>]

\* entry of getSalt up to the first iteration of getFromAPI, started only
\* while fewer than bound events are stored
BeginWithin(c, bound) ==
    /\ pc = "idle"
    /\ TotalEvents(stats) < bound
    /\ now < MaxClock
    /\ pc' = "loop"
    /\ call' = c
    /\ attempts' = 0
    /\ resp' = NoResp
    /\ respBody' = NoBody
    /\ err' = NilErr
    /\ last' = NoExchange
    /\ trace' = <<>>
    /\ sleeps' = 0
    /\ stats0' = stats
    /\ t0' = now
    /\ UNCHANGED <<auxVars, rankVars, enabled, stats, options, RetryLimit, now, protocolVars>>

Begin(c) == BeginWithin(c, MaxStored)

CallNewPassword(h) ==
    Begin([NoCall EXCEPT !.op = "NewPassword", !.hash = h])

CallVerifyPassword(h, expected, versionID) ==
    Begin([op |-> "VerifyPassword", hash |-> h, expected |-> expected,
           versionID |-> versionID])

\* what the caller may pass as the expected hash: a wrong one or the stored one
ExpectedInputs == {<<102>>} \cup (IF stored.ok THEN {stored.Hash} ELSE {})

\* what an attempt of a salt request can meet: a timeout, the server's answer,
\* a 200 answer that is not JSON or carries a salt that is not hex, or a 200
\* answer with a second salt under the version of the first
ProtocolExchanges ==
    {TimeoutExchange,
     ServerAnswer(URI(call), latest),
     Response(200, Text(<<"e">>), 1),
     Response(200, Json(<<"-">>, 3, <<>>, 0), 1),
     Response(200, Json(<<"0", "A">>, 2, <<"z", "z">>, 3), 1),
     Response(200, Json(<<"0", "1">>, 2, <<"0", "2">>, 2), 1)}

FinishNewPassword ==
    /\ pc = "returned"
    /\ call.op = "NewPassword"
    /\ LET r == NewPasswordResult(getSalt(respBody, err), call.hash)
       IN /\ result' = r
          /\ stored' = IF r.isNil THEN stored
                       ELSE [ok |-> TRUE, hash |-> call.hash, Hash |-> r.Hash,
                             VersionID |-> r.VersionID,
                             answered |-> (last = ServerAnswer(URI(call), latest))]
    /\ pc' = "done"
    /\ UNCHANGED <<auxVars, rankVars, enabled, stats, options, RetryLimit, now, frameVars, latest>>

FinishVerifyPassword ==
    /\ pc = "returned"
    /\ call.op = "VerifyPassword"
    /\ result' = VerifyPasswordResult(getSalt(respBody, err), call.hash, call.expected)
    /\ pc' = "done"
    /\ UNCHANGED <<auxVars, rankVars, enabled, stats, options, RetryLimit, now, frameVars, latest, stored>>

\* the service moves to new data pool settings
Rotate ==
    /\ pc = "idle"
    /\ latest < MaxVersion
    /\ latest' = latest + 1
    /\ UNCHANGED <<auxVars, rankVars, enabled, stats, options, RetryLimit, now, pc, frameVars, result, stored>>

Next ==
    \/ Enable
    \/ Disable
    \/ \E h \in DirectHosts : AddSuccess(h, 1)
    \/ \E h \in DirectHosts : AddError(h, 503)
    \/ \E h \in DirectHosts : AddTimeout(h)
    \/ \E h \in DirectHosts : Get(h)
    \/ \E ok \in BOOLEAN, servers \in ServerLists : Load(ok, servers)
    \/ CallGetFromAPI
    \/ \E o \in Exchanges : Attempt(o)
    \/ LoopExit
    \/ Finish
    \/ Return

Spec == Init /\ [][Next]_vars

NextProtocol ==
    \/ Enable
    \/ Rotate
    \/ \E h \in HashInputs : CallNewPassword(h)
    \/ \E h \in HashInputs, e \in ExpectedInputs, v \in 0..MaxVersion :
           CallVerifyPassword(h, e, v)
    \/ \E o \in ProtocolExchanges : Attempt(o)
    \/ LoopExit
    \/ FinishNewPassword
    \/ FinishVerifyPassword
    \/ Return

SpecProtocol == Init /\ [][NextProtocol]_vars

\* ================================================================ properties
Returned == pc \in {"returned", "done"}
InCall == pc \in {"loop", "returned", "done"}

\* the attempts of the call, classified by what the transport delivered
GotTimeout(e) == e.doErr = "timeout"
GotNoResponse(e) == e.doErr = "transport" /\ ~e.hasResp
GotBadBody(e) == e.doErr # "timeout" /\ e.hasResp /\ (e.readErr \/ e.empty)
GotStatus(e, lo, hi) == e.doErr = "nil" /\ e.hasResp /\ e.status >= lo /\ e.status <= hi
Readable(e) == ~e.readErr /\ ~e.empty
Got999(e) == GotNoResponse(e) \/ GotBadBody(e)

Indexes(P(_)) == {i \in 1..Len(trace) : P(trace[i])}
All(P(_)) == Len(trace) >= 1 /\ \A i \in 1..Len(trace) : P(trace[i])
LastEntry == trace[Len(trace)]

\* strings.TrimSpace, stated by its result: the part between the leading and
\* the trailing run of spaces
IsSpaces(s) == \A i \in 1..Len(s) : s[i] = " "
Trimmed(s) ==
    CHOOSE t \in {SubSeq(s, i, j) : i \in 1..(Len(s) + 1), j \in 0..Len(s)} :
        /\ \E i \in 1..(Len(s) + 1), j \in 0..Len(s) :
              /\ t = SubSeq(s, i, j)
              /\ IsSpaces(SubSeq(s, 1, i - 1))
              /\ IsSpaces(SubSeq(s, j + 1, Len(s)))
        /\ t # <<>> => (t[1] # " " /\ t[Len(t)] # " ")
BodyError(b) == [kind |-> "msg",
                 msg |-> IF b.kind = "text" THEN Text(Trimmed(b.text)) ELSE b]

\* events recorded since the call started, as read through Get(host)
ErrDelta(h, c) == ErrorsCount(stats, h, c) - ErrorsCount(stats0, h, c)
ErrLenDelta(h) == ErrorsLen(stats, h) - ErrorsLen(stats0, h)
TimeoutDelta(h) == Timeouts(stats, h) - Timeouts(stats0, h)
SuccessDelta(h) == Requests(stats, h) - Requests(stats0, h)
Codes == {unknownCode, 302, 404, 500, 503, 200}
NoErrorsAdded == \A h \in AllHosts : ErrLenDelta(h) = 0
NoTimeoutsAdded == \A h \in AllHosts : TimeoutDelta(h) = 0
NoSuccessAdded == \A h \in AllHosts : SuccessDelta(h) = 0
AttemptsOn(h, P(_)) == Cardinality({i \in Indexes(P) : trace[i].host = h})

\* ---------------------------------------------------------------------- C2
Got4xx(e) == GotStatus(e, 400, 499)
Got4xxBody(e) == Got4xx(e) /\ Readable(e)

EndsCallAt(i) ==
    /\ i = Len(trace)
    /\ Returned
    /\ attempts = i
    /\ sleeps = i - 1
    /\ err = BodyError(last.body)

\* C2 as stated: a 4xx response ends the call at that attempt whatever its
\* body: no later attempt, no later sleep, the trimmed body is the error.
C2_Original == \A i \in 1..Len(trace) : Got4xx(trace[i]) => EndsCallAt(i)

\* C2 (amended): a 4xx response whose body was read and is not empty ends the
\* call at that attempt: no later attempt, no later sleep, the trimmed body is
\* the error; on the first attempt that is one attempt and no sleep.
C2_ClientErrorEndsCall == \A i \in 1..Len(trace) : Got4xxBody(trace[i]) => EndsCallAt(i)

C2_Witness ==
    /\ pc = "done" /\ Len(trace) = 2 /\ Got4xxBody(trace[2])
    /\ last.body = Text(<<" ", "f", " ">>) /\ err.msg = Text(<<"f">>)

\* ---------------------------------------------------------------------- C3
Got5xx(e) == GotStatus(e, 500, 599)
Got5xxBody(e) == Got5xx(e) /\ Readable(e)

ServerErrorsRecorded(P(_)) ==
    /\ Len(trace) = RetryLimit
    /\ \A h \in AllHosts : ErrLenDelta(h) = AttemptsOn(h, P)
    /\ \A h \in AllHosts, c \in Codes :
          ErrDelta(h, c) = Cardinality({i \in Indexes(P) :
                                           trace[i].host = h /\ trace[i].status = c})
    /\ NoTimeoutsAdded /\ NoSuccessAdded
    /\ err = BodyError(last.body)

\* C3 as stated: statistics enabled and every attempt answered 5xx (any body):
\* RetryLimit error events, each with the response's status code, and the
\* error is the trimmed body of the last response.
C3_Original == (Returned /\ enabled /\ All(Got5xx)) => ServerErrorsRecorded(Got5xx)

\* C3 (amended): the same for 5xx responses whose body was read and is not empty.
C3_ServerErrorsExhaust ==
    (Returned /\ enabled /\ All(Got5xxBody)) => ServerErrorsRecorded(Got5xxBody)

C3_Witness ==
    /\ pc = "done" /\ enabled /\ RetryLimit = 3 /\ All(Got5xxBody)
    /\ trace[1].status = 500 /\ trace[2].status = 503 /\ trace[1].host # trace[2].host
    /\ trace[3].host = trace[1].host /\ last.body = Text(<<" ", "f", " ">>)

\* ------------------------------------------------------- ranking actions
\* a request of some call records its outcome
RecordAllowed == pc = "idle" /\ TotalEvents(stats) < MaxEvents

RecordSuccess(h, lat) ==
    /\ RecordAllowed
    /\ stats' = AddSuccessTo(stats, enabled, h, lat, now)
    /\ UNCHANGED <<auxVars, enabled, options, RetryLimit, now, pc, frameVars, protocolVars, rankVars>>

RecordError(h, code) ==
    /\ RecordAllowed
    /\ stats' = AddErrorTo(stats, enabled, h, code, now)
    /\ UNCHANGED <<auxVars, enabled, options, RetryLimit, now, pc, frameVars, protocolVars, rankVars>>

RecordTimeout(h) ==
    /\ RecordAllowed
    /\ stats' = AddTimeoutTo(stats, enabled, h, now)
    /\ UNCHANGED <<auxVars, enabled, options, RetryLimit, now, pc, frameVars, protocolVars, rankVars>>

\* a minute passes
Elapse ==
    /\ pc = "idle"
    /\ now < MaxMinutes * Minute
    /\ now' = now + Minute
    /\ UNCHANGED <<auxVars, enabled, stats, options, RetryLimit, pc, frameVars, protocolVars, rankVars>>

\* statistics.Hosts(), also called again right after it returned
CallHosts(order) ==
    /\ pc \in {"idle", "ranked"}
    /\ ranked' = StatsHosts(stats, order, now)
    /\ pc' = "ranked"
    /\ UNCHANGED <<auxVars, enabled, stats, options, RetryLimit, now, frameVars, protocolVars,
                   picked, held>>

\* Config.Host(i)
CallHost(i) ==
    /\ pc \in {"idle", "ranked"}
    /\ picked' = [i |-> i, host |-> Host(options, i)]
    /\ pc' = "picked"
    /\ UNCHANGED <<auxVars, enabled, stats, options, RetryLimit, now, frameVars, protocolVars,
                   ranked, held>>

\* the caller drops what it was given and goes on
Forget ==
    /\ pc \in {"ranked", "picked"}
    /\ pc' = "idle"
    /\ ranked' = <<>>
    /\ picked' = NoPick
    /\ UNCHANGED <<auxVars, enabled, stats, options, RetryLimit, now, frameVars, protocolVars, held>>

Attempts == 0..3

\* ------------------------------------------------------- snapshot actions
\* what Get would return if it copied the record
GetResult_Copy(st, h) ==
    [kind |-> "own", host |-> h, own |-> init(st, h)[h], taken |-> init(st, h)[h]]

\* statistics.Get(host): the pointer stored in the map
GetResult(st, h) ==
    [kind |-> "pointer", host |-> h, own |-> newHostStatistics, taken |-> init(st, h)[h]]

\* Get(host).Last(window): a new record holding the events of the window
LastResult(st, h, window, t) ==
    [kind |-> "own", host |-> h, own |-> Last(init(st, h)[h], window, t),
     taken |-> Last(init(st, h)[h], window, t)]

\* c.Stats().Get(h), kept by the caller
KeepGet(h) ==
    /\ pc = "idle"
    /\ stats' = init(stats, h)
    /\ held' = GetResult(stats, h)
    /\ UNCHANGED <<auxVars, enabled, options, RetryLimit, now, pc, frameVars, protocolVars,
                   ranked, picked>>

\* c.Stats().Get(h).Last(time.Minute), kept by the caller
KeepLast(h) ==
    /\ pc = "idle"
    /\ stats' = init(stats, h)
    /\ held' = LastResult(stats, h, Minute, now)
    /\ UNCHANGED <<auxVars, enabled, options, RetryLimit, now, pc, frameVars, protocolVars,
                   ranked, picked>>

\* what the kept HostStats reports when it is read now
Reported(hs, st) == IF hs.kind = "pointer" THEN st[hs.host] ELSE hs.own

NextSnapshot ==
    \/ Enable
    \/ \E h \in Hosts, lat \in Latencies : RecordSuccess(h, lat)
    \/ \E h \in Hosts : RecordError(h, 503)
    \/ \E h \in Hosts : RecordTimeout(h)
    \/ Elapse
    \/ \E h \in Hosts : KeepGet(h)
    \/ \E h \in Hosts : KeepLast(h)

SpecSnapshot == Init /\ [][NextSnapshot]_vars

NextRanking ==
    \/ Enable
    \/ \E servers \in ServerLists : Load(TRUE, servers)
    \/ \E h \in Hosts, lat \in Latencies : RecordSuccess(h, lat)
    \/ \E h \in Hosts : RecordError(h, 503)
    \/ \E h \in Hosts : RecordTimeout(h)
    \/ Elapse
    \/ \E order \in Orders(DOMAIN stats) : CallHosts(order)
    \/ \E i \in Attempts : CallHost(i)
    \/ Forget

SpecRanking == Init /\ [][NextRanking]_vars

\* ---------------------------------------------------------------------- C1
\* the call in progress verifies what the last NewPassword returned for the
\* same hash, and the last attempt of both calls received the server's own answer
RoundTrip ==
    /\ pc = "done" /\ call.op = "VerifyPassword" /\ stored.ok /\ stored.answered
    /\ call.hash = stored.hash
    /\ call.expected = stored.Hash
    /\ call.versionID = stored.VersionID
    /\ last = ServerAnswer(URI(call), latest)

\* C1: VerifyPassword(h, NewPassword(h).Hash, NewPassword(h).VersionID), when
\* answered by the server, returns no error and Matched = TRUE.
C1_RoundTrip == RoundTrip => (~result.isNil /\ result.err = NilErr /\ result.Matched)

C1_Witness ==
    /\ RoundTrip /\ result.Matched
    /\ latest = 2 /\ stored.VersionID = 1 /\ stored.hash = <<171, 10>>
    /\ Len(trace) = 2 /\ GotTimeout(trace[1])
    /\ result.NewHash # <<>>

\* ---------------------------------------------------------------------- C4
\* each HTTP attempt returns, and the loop test is evaluated again after it
NextLoop ==
    \/ Enable
    \/ \E servers \in ServerLists : Load(TRUE, servers)
    \/ CallGetFromAPI
    \/ \E o \in Exchanges : Attempt(o)
    \/ LoopExit
    \/ Finish
    \/ Return

FairSpec ==
    /\ Init /\ [][NextLoop]_vars
    /\ WF_vars(\E o \in Exchanges : Attempt(o)) /\ WF_vars(LoopExit)

\* C4: whatever the outcomes, a call issues at most RetryLimit HTTP attempts
\* and then returns.
C4_AtMostRetryLimitAttempts ==
    /\ [](InCall => (Len(trace) <= RetryLimit /\ attempts = Len(trace)))
    /\ ((pc = "loop") ~> Returned)

C4_Witness ==
    /\ pc = "returned" /\ RetryLimit = 3 /\ Len(trace) = 3
    /\ GotTimeout(trace[1]) /\ GotBadBody(trace[2]) /\ Got5xxBody(trace[3])

\* ---------------------------------------------------------------------- C5
Success(e) == GotStatus(e, 200, 399) /\ Readable(e)

SuccessRecorded(h) ==
    /\ SuccessDelta(h) = 1
    /\ \A g \in AllHosts \ {h} : SuccessDelta(g) = 0
    /\ HostRecord(stats, h).latency[Requests(stats, h)].latency = last.latency

\* C5: the first attempt answered 2xx/3xx with a non-empty body ends the
\* call: its body is returned with a nil error, no later attempt is made and,
\* with statistics enabled, exactly one success event is recorded for its host.
C5_SuccessEndsCall ==
    \A i \in 1..Len(trace) :
        Success(trace[i]) =>
            /\ i = Len(trace) /\ Returned /\ attempts = i
            /\ err = NilErr
            /\ respBody = last.body
            /\ enabled => SuccessRecorded(trace[i].host)

C5_Witness ==
    /\ pc = "done" /\ enabled /\ Len(trace) = 3 /\ Success(trace[3])
    /\ GotTimeout(trace[1]) /\ Got5xxBody(trace[2])
    /\ last.status = 302 /\ trace[3].host # trace[2].host

\* ---------------------------------------------------------------------- C6
\* the error an attempt ends with, from what the transport delivered
AttemptError(o) ==
    IF o.doErr = "timeout" THEN TimeoutErr
    ELSE IF ~o.hasResp THEN TransportErr
    ELSE IF o.readErr \/ BodyLen(o.body) = 0 THEN ErrUnexpectedEOF
    ELSE IF o.status >= 400 THEN BodyError(o.body)
    ELSE NilErr

Exhausted == Returned /\ Len(trace) = RetryLimit /\ ~Success(LastEntry)

\* C6: a call that used up its attempts without a success returns the error
\* of its last attempt, never an earlier one and never nil.
C6_LastErrorReturned == Exhausted => (err = AttemptError(last) /\ err # NilErr)

C6_Witness ==
    /\ pc = "done" /\ RetryLimit = 3 /\ Exhausted
    /\ Got5xxBody(trace[1]) /\ GotBadBody(trace[2]) /\ GotTimeout(trace[3])
    /\ err = TimeoutErr /\ respBody # NoBody

\* ---------------------------------------------------------------------- C7
GotFailure(e) == ~GotTimeout(e) /\ ~Success(e)

TimeoutsRecorded ==
    \A h \in AllHosts : /\ TimeoutDelta(h) = AttemptsOn(h, GotTimeout)
                        /\ ErrLenDelta(h) = AttemptsOn(h, GotFailure)

\* a call does not end on an attempt of class P unless its attempts are used up
Retried(P(_)) ==
    \A i \in 1..Len(trace) : (P(trace[i]) /\ i = Len(trace) /\ Returned) => i = RetryLimit

AllTimedOut == (Returned /\ All(GotTimeout)) => (Len(trace) = RetryLimit /\ err = TimeoutErr)

\* C7 as stated: every timed-out attempt records one timeout event and no
\* error event for its host, whether or not statistics are enabled.
C7_Original == InCall => (TimeoutsRecorded /\ Retried(GotTimeout) /\ AllTimedOut)

\* C7 (amended): with statistics enabled every timed-out attempt records one
\* timeout event and no error event for its host; a timed-out attempt is
\* retried, and when all attempts time out the call returns a timeout error.
C7_TimeoutsRecordedAndRetried ==
    InCall => ((enabled => TimeoutsRecorded) /\ Retried(GotTimeout) /\ AllTimedOut)

C7_Witness ==
    /\ pc = "done" /\ enabled /\ RetryLimit = 3 /\ All(GotTimeout)
    /\ TotalTimeouts(stats) = 3 /\ TotalErrors(stats) = 0 /\ err = TimeoutErr
    /\ trace[1].host # trace[2].host

\* ---------------------------------------------------------------------- C8
UnknownErrorsRecorded ==
    \A h \in AllHosts : /\ ErrDelta(h, unknownCode) = AttemptsOn(h, Got999)
                        /\ TimeoutDelta(h) = AttemptsOn(h, GotTimeout)

AllUnknown ==
    (Returned /\ All(Got999)) =>
        /\ Len(trace) = RetryLimit
        /\ err # NilErr
        /\ GotBadBody(LastEntry) => err = ErrUnexpectedEOF

\* C8 as stated: every attempt without a response or with an unreadable or
\* empty body records one error event with code 999 for its host, whether or
\* not statistics are enabled.
C8_Original == InCall => (UnknownErrorsRecorded /\ Retried(Got999) /\ AllUnknown)

\* C8 (amended): with statistics enabled every such attempt records one error
\* event with code 999 for its host; the attempt is retried, and when all
\* attempts fail this way an error is returned (unexpected EOF for a body).
C8_UnknownErrorsRecordedAndRetried ==
    InCall => ((enabled => UnknownErrorsRecorded) /\ Retried(Got999) /\ AllUnknown)

C8_Witness ==
    /\ pc = "done" /\ enabled /\ RetryLimit = 3 /\ All(Got999)
    /\ GotNoResponse(trace[1]) /\ trace[2].readErr /\ trace[3].empty
    /\ TotalErrors(stats) = 3 /\ err = ErrUnexpectedEOF

\* ---------------------------------------------------------------------- C9
\* C9: a sleep of RetryDelay precedes every attempt but the first and happens
\* at no other time: k attempts, k - 1 sleeps, RetryDelay * (k - 1) waited.
C9_SleepBeforeEachRetry ==
    InCall =>
        /\ \A i \in 1..Len(trace) : trace[i].slept <=> (i > 1)
        /\ sleeps = IF Len(trace) = 0 THEN 0 ELSE Len(trace) - 1
        /\ now - t0 >= RetryDelay * sleeps

C9_Witness ==
    /\ pc = "done" /\ RetryLimit = 3 /\ Len(trace) = 3 /\ sleeps = 2
    /\ now - t0 = 2 * RetryDelay

\* --------------------------------------------------------------------- C10
EventsView(st) == [h \in AllHosts |-> HostRecord(st, h)]

NormalOutcome ==
    /\ Len(trace) >= 1
    /\ err = AttemptError(last)
    /\ Success(LastEntry) => respBody = last.body

\* C10: while statistics are disabled, as they are at first, no operation
\* changes the events of any host, and requests return their normal result.
C10_DisabledRecordsNothing ==
    /\ ~enabled
    /\ [][(~enabled) => EventsView(stats') = EventsView(stats)]_vars
    /\ []((~enabled /\ Returned) => NormalOutcome)

C10_Witness ==
    /\ ~enabled /\ pc = "done" /\ Len(trace) = 3 /\ TotalEvents(stats) = 0
    /\ GotTimeout(trace[1]) /\ Got5xxBody(trace[2]) /\ Success(trace[3])
    /\ "foo.com" \in DOMAIN stats

\* --------------------------------------------------------------------- C11
InProtocolCall == call.op \in {"NewPassword", "VerifyPassword"}

\* a string of hexadecimal digits, two for each byte
IsHexString(s) ==
    /\ \E n \in 0..Len(s) : Len(s) = 2 * n
    /\ \A i \in 1..Len(s) :
          s[i] \in {"0", "1", "2", "3", "4", "5", "6", "7", "8", "9", "a", "b", "c",
                    "d", "e", "f", "A", "B", "C", "D", "E", "F"}

\* a body that is not JSON, or whose s2 or (present) new_s2 is not hex
Undecodable(b) ==
    \/ b.kind # "json"
    \/ ~IsHexString(b.s2)
    \/ (b.new_s2 # <<>> /\ ~IsHexString(b.new_s2))

\* the call's last attempt was answered 2xx with a body that cannot be decoded
DecodeFailure == InProtocolCall /\ Returned /\ Success(LastEntry) /\ Undecodable(last.body)

DecodeErrors == {SyntaxError, ErrLength, InvalidByteError}

ShownAsSuccess ==
    /\ SuccessRecorded(LastEntry.host)
    /\ \A h \in AllHosts : /\ ErrLenDelta(h) = AttemptsOn(h, GotFailure)
                           /\ TimeoutDelta(h) = AttemptsOn(h, GotTimeout)

\* the attempt is not retried: it is the call's last, the first one if nothing
\* retryable came before it
NotRetried ==
    \A i \in 1..Len(trace) : Success(trace[i]) => (i = Len(trace) /\ attempts = i)

Surfaced == pc = "done" => (result.isNil /\ result.err \in DecodeErrors)

\* C11 as stated: the undecodable 2xx answer is shown by the statistics as one
\* success event, whether or not statistics are enabled.
C11_Original == DecodeFailure => (NotRetried /\ ShownAsSuccess /\ Surfaced)

\* C11 (amended): a 2xx answer whose non-empty body is not JSON or carries a
\* salt that is not hex is not retried, NewPassword / VerifyPassword return
\* the decode error with a nil result and, with statistics enabled, the
\* attempt is recorded as one success event and no error or timeout event.
C11_DecodeErrorSurfaced ==
    DecodeFailure => (NotRetried /\ (enabled => ShownAsSuccess) /\ Surfaced)

C11_Witness ==
    /\ pc = "done" /\ enabled /\ DecodeFailure /\ call.op = "VerifyPassword"
    /\ Len(trace) = 2 /\ GotTimeout(trace[1])
    /\ last.body.new_s2 = <<"z", "z">> /\ result.err = InvalidByteError
    /\ TotalSuccesses(stats) = 1 /\ TotalErrors(stats) = 0

\* --------------------------------------------------------------------- C12
Verified == pc = "done" /\ call.op = "VerifyPassword" /\ ~result.isNil

Answered == last = ServerAnswer(URI(call), latest)

RequestedVersion == IF call.versionID = 0 THEN latest ELSE call.versionID

NewSaltReturned == last.body.new_s2 # <<>>

\* C12: VerifyPassword sets NewHash, the HMAC of hash1 under the new salt, if
\* and only if Matched, the answer's two versions differ and it carries a new
\* salt; Hash is the HMAC under the salt of the requested version.
C12_NewHashIffRotation ==
    Verified =>
        /\ (result.NewHash # <<>>) <=>
              (result.Matched /\ last.body.new_vid # last.body.vid /\ NewSaltReturned)
        /\ (result.NewHash # <<>>) =>
              result.NewHash = HMAC(DecodeString(last.body.new_s2).bytes, call.hash)
        /\ result.Hash = HMAC(DecodeString(last.body.s2).bytes, call.hash)
        /\ Answered => result.Hash = HMAC(ServerSalt(call.hash, RequestedVersion), call.hash)
        /\ result.Matched <=> (result.Hash = call.expected)

C12_Witness ==
    /\ Verified /\ Answered /\ result.Matched /\ latest = 2 /\ call.versionID = 1
    /\ result.NewHash = HMAC(ServerSalt(call.hash, 2), call.hash)
    /\ result.Hash = HMAC(ServerSalt(call.hash, 1), call.hash)
    /\ result.NewVersionID = 2

\* a second salt under the same version gives no new hash
C12_SameVersion ==
    /\ Verified /\ NewSaltReturned /\ last.body.new_vid = last.body.vid
    /\ result.NewHash = <<>>

\* --------------------------------------------------------------------- C13
\* what getSalt returns for the call in progress
SaltReturned == getSalt(respBody, err)

\* getSalt(h, 0) received the server's answer and returned without an error
LatestAsked ==
    /\ InProtocolCall /\ Returned /\ call.versionID = 0
    /\ Answered /\ SaltReturned.err = NilErr

NoRotationPending == last.body.new_s2 = <<>> /\ last.body.new_vid = 0

\* C13 as stated: the salt of the latest version, with NewVersionID equal to
\* VersionID when the answer carries no new salt and version.
C13_Original ==
    LatestAsked =>
        /\ SaltReturned.s.VersionID = latest
        /\ NoRotationPending => SaltReturned.s.NewVersionID = SaltReturned.s.VersionID

\* C13 (amended): getSalt(h, 0) returns the salt and version the server
\* considers latest; when the answer carries no new salt and version the
\* returned Salt has NewVersionID = 0 and no NewSalt.
C13_LatestVersionReturned ==
    LatestAsked =>
        /\ SaltReturned.s.VersionID = latest
        /\ SaltReturned.s.Salt = ServerSalt(call.hash, latest)
        /\ NoRotationPending =>
              (SaltReturned.s.NewVersionID = 0 /\ ~SaltReturned.s.hasNewSalt)

C13_Witness ==
    /\ LatestAsked /\ NoRotationPending /\ pc = "done" /\ call.op = "NewPassword"
    /\ latest = 2 /\ result.VersionID = 2 /\ SaltReturned.s.NewVersionID = 0
    /\ call.hash = testHashBytes

\* --------------------------------------------------------------------- C14
\* the salt exchange failed: the request ended in an error, or its answer
\* could not be decoded
ExchangeFailed == ~Success(LastEntry) \/ Undecodable(last.body)

Mismatch ==
    /\ call.op = "VerifyPassword" /\ ~ExchangeFailed
    /\ HMAC(DecodeString(last.body.s2).bytes, call.hash) # call.expected

\* C14: NewPassword and VerifyPassword return a nil result with an error when
\* the salt exchange failed and a result with a nil error otherwise; a hash
\* that does not match is a result with Matched = FALSE, not an error.
C14_ResultOrError ==
    (pc = "done" /\ InProtocolCall) =>
        /\ result.isNil <=> (result.err # NilErr)
        /\ result.isNil <=> ExchangeFailed
        /\ Mismatch => (~result.isNil /\ result.err = NilErr /\ ~result.Matched)

C14_Witness ==
    /\ pc = "done" /\ Mismatch /\ Answered /\ ~result.isNil /\ ~result.Matched
    /\ call.expected = <<102>> /\ Len(trace) = 2

\* both operations fail with the error of the request
C14_Failed ==
    /\ pc = "done" /\ call.op = "NewPassword" /\ result.isNil
    /\ result.err = ErrorsNew(Text(errRespHash)) /\ call.hash = <<>>

\* ------------------------------------------------------------- C15 .. C18
\* the events of host h in the trailing minute
Recent(h) == Last(HostRecord(stats, h), Minute, now)

\* error rate and average latency of the trailing minute, and their order
RecentRate(h) == ErrorRate(Recent(h))
RecentAvg(h) == Avg(Latency(Recent(h)))
SameRate(g, h) == ~RateLess(RecentRate(g), RecentRate(h)) /\ ~RateLess(RecentRate(h), RecentRate(g))
RanksNoLater(g, h) ==
    \/ RateLess(RecentRate(g), RecentRate(h))
    \/ SameRate(g, h) /\ RecentAvg(g) <= RecentAvg(h)

Position(l, h) == CHOOSE i \in DOMAIN l : l[i] = h

OnlyOne503(h) ==
    /\ Len(Recent(h).errors) = 1 /\ Recent(h).errors[1].code = 503
    /\ Recent(h).timeouts = <<>> /\ Recent(h).latency = <<>>

OnlyOneFastSuccess(h) ==
    /\ Len(Recent(h).latency) = 1 /\ Recent(h).latency[1].latency = 1
    /\ Recent(h).timeouts = <<>> /\ Recent(h).errors = <<>>

\* C15: in the ranking a host with one 503 error as its only recent event
\* comes after a host with one fast success as its only recent event.
C15_ErrorRanksAfterSuccess ==
    pc = "ranked" =>
        \A f, b \in DOMAIN stats :
            (OnlyOne503(f) /\ OnlyOneFastSuccess(b)) =>
                Position(ranked, f) > Position(ranked, b)

\* C16: the list of Hosts() is in ascending order of recent error rate, and
\* of average latency between equal rates.
C16_RankingSorted ==
    pc = "ranked" =>
        \A i, j \in DOMAIN ranked : i < j => RanksNoLater(ranked[i], ranked[j])

\* the rankings of the configured servers the stated order allows
IdealRankings(servers) ==
    {o \in Orders({servers[k] : k \in DOMAIN servers}) :
        \A i, j \in DOMAIN o : i < j => RanksNoLater(o[i], o[j])}

\* C17: with several servers Config.Host(i) is the host at position
\* i mod len of the configured hosts ranked by recent error rate and latency.
C17_HostFollowsRanking ==
    (pc = "picked" /\ Len(Servers(options)) >= 2) =>
        \E r \in IdealRankings(Servers(options)) :
            picked.host = r[(picked.i % Len(r)) + 1]

\* C18: with the statistics unchanged, a second evaluation of Hosts() returns
\* the ordering of the first.
C18_RankingDeterministic ==
    [][(pc = "ranked" /\ pc' = "ranked") => ranked' = ranked]_vars

\* --------------------------------------------------------------------- C19
ExpectedHost(servers, i) ==
    CASE Len(servers) = 0 -> DefaultHost
      [] Len(servers) = 1 -> servers[1]
      [] OTHER -> servers[(i % Len(servers)) + 1]

C19_NoServers == pc = "picked" /\ picked.i = 2 /\ options.isNil /\ picked.host = DefaultHost

\* --------------------------------------------------------------------- C20
Kept == held.kind # "none"

\* counts, error codes, latencies and error rate of a record
Report(hs) ==
    [errors |-> [i \in 1..Len(hs.errors) |-> hs.errors[i].code],
     timeouts |-> Len(hs.timeouts), latency |-> Latency(hs), rate |-> ErrorRate(hs)]

\* C20: a HostStats returned by Get(host) or Last(window) reports, after any
\* later AddSuccess / AddError / AddTimeout, what it reported when returned.
C20_SnapshotIndependent == Kept => Report(Reported(held, stats)) = Report(held.taken)

\* ================================================ configuration under load
baseVars == <<enabled, stats, options, RetryLimit, now, pc, frameVars, protocolVars,
              rankVars>>
baseVarsButStats == <<enabled, options, RetryLimit, now, pc, frameVars, protocolVars,
                      rankVars>>

\* the lists the options request can answer with
LoadLists == ServerLists \cup {<<"bar.com", "foo.com">>}

\* a configuration holding the given list
OptionsOf(l) == [isNil |-> FALSE, Servers |-> l, LastModified |-> 0]

\* Config.Load up to the answer of the options request: c.options is made
\* non-nil, then the request fails or its body is about to be decoded
LoadStart(ok, servers) ==
    /\ load.pc = "idle"
    /\ options' = IF options.isNil THEN [NilOptions EXCEPT !.isNil = FALSE] ELSE options
    /\ load' = IF ok THEN [pc |-> "decode", new |-> servers, i |-> 0,
                           old |-> Servers(options)]
               ELSE load
    /\ UNCHANGED <<moreVars, enabled, stats, RetryLimit, now, pc, frameVars, protocolVars, rankVars,
                   seen, legacy, locks, threads, asked>>

\* Decode(c.options), no lock held: the next element of the answer is stored
\* into c.options.Servers itself, over the element in that place or after the last
LoadElement ==
    /\ load.pc = "decode"
    /\ load.i < Len(load.new)
    /\ options' = [options EXCEPT !.Servers =
                      IF load.i < Len(@) THEN [@ EXCEPT ![load.i + 1] = load.new[load.i + 1]]
                      ELSE Append(@, load.new[load.i + 1])]
    /\ load' = [load EXCEPT !.i = @ + 1]
    /\ UNCHANGED <<moreVars, enabled, stats, RetryLimit, now, pc, frameVars, protocolVars, rankVars,
                   seen, legacy, locks, threads, asked>>

\* the end of the answer: the slice is cut to the elements decoded, then
\* c.Stats().SetServers(c.options.Servers) and return
LoadEnd ==
    /\ load.pc = "decode"
    /\ load.i = Len(load.new)
    /\ options' = [options EXCEPT !.Servers = SubSeq(@, 1, load.i), !.LastModified = 1]
    /\ stats' = SetServersFrom(stats, load.new)
    /\ load' = NoLoad
    /\ UNCHANGED <<moreVars, enabled, RetryLimit, now, pc, frameVars, protocolVars, rankVars,
                   seen, legacy, locks, threads, asked>>

\* the lists a complete configuration holds at this moment: the one before
\* the load in progress and the one after it
ListBefore == IF load.pc = "decode" THEN load.old ELSE Servers(options)
ListAfter == IF load.pc = "decode" THEN load.new ELSE Servers(options)

\* Config.Servers() called by another goroutine
ReadServers ==
    /\ seen' = [valid |-> TRUE, servers |-> Servers(options), host |-> "", i |-> 0,
                before |-> ListBefore, after |-> ListAfter]
    /\ UNCHANGED <<moreVars, baseVars, load, legacy, locks, threads, asked>>

\* Config.Host(i) called by another goroutine
ReadHost(i) ==
    /\ seen' = [valid |-> TRUE, servers |-> Servers(options), host |-> Host(options, i),
                i |-> i, before |-> ListBefore, after |-> ListAfter]
    /\ UNCHANGED <<moreVars, baseVars, load, legacy, locks, threads, asked>>

NextConfig ==
    \/ \E ok \in BOOLEAN, servers \in LoadLists : LoadStart(ok, servers)
    \/ LoadElement
    \/ LoadEnd
    \/ ReadServers
    \/ \E i \in Attempts : ReadHost(i)

SpecConfig == Init /\ [][NextConfig]_vars

\* --------------------------------------------------------------------- C21
\* C21: a reader calling Config.Servers() or Config.Host(i) concurrently with
\* Config.Load sees the complete server list from before the Load or the
\* complete list from after it (and the host that list gives), never a list
\* in between.
C21_LoadAtomic ==
    seen.valid =>
        \/ seen.servers = seen.before /\ (seen.host \in {"", Host(OptionsOf(seen.before), seen.i)})
        \/ seen.servers = seen.after /\ (seen.host \in {"", Host(OptionsOf(seen.after), seen.i)})

\* --------------------------------------------------------------------- C22
\* the attempts recorded for a host, of every kind
EventsOf(st, h) ==
    Len(HostRecord(st, h).latency) + Len(HostRecord(st, h).errors)
        + Len(HostRecord(st, h).timeouts)

\* C22: Requests() of a host is the total number of requests made to it: the
\* successes, errors and timeouts recorded for the host together.
C22_RequestsCountsAll == \A h \in AllHosts : Requests(stats, h) = EventsOf(stats, h)

\* --------------------------------------------------------------------- C23
SameLength == Len(result.Hash) = Len(call.expected)

\* C23: VerifyPassword sets Matched to (candidate == expected hash) with a
\* constant-time comparison: for hashes of one length every byte position is
\* looked at, wherever the first difference is.
C23_ConstantTimeCompare ==
    (Verified /\ SameLength) =>
        /\ result.Matched = (result.Hash = call.expected)
        /\ result.Examined = Len(result.Hash)

\* ============================================================ legacy client
\* The Client of api.go and statistics.go: two counters and the latencies,
\* kept by getSalt itself.

\* Client.Requests, Client.Errors
ClientRequests(l) == l.reqCt
ClientErrors(l) == l.reqErrCt

\* Client.ErrorPct: an integer division, which panics on a zero divisor
ErrorPct(l) ==
    IF ClientErrors(l) = 0 THEN [called |-> TRUE, panic |-> TRUE, value |-> 0]
    ELSE [called |-> TRUE, panic |-> FALSE, value |-> ClientRequests(l) \div ClientErrors(l)]

\* Client.incrErrs(latency)
incrErrs(l, latency) ==
    IF ~l.stats THEN l
    ELSE [l EXCEPT !.reqErrCt = @ + 1,
                   !.reqLatency = IF latency # 0 THEN Append(@, latency) ELSE @]

\* Client.incrSuccess(latency)
incrSuccess(l, latency) ==
    IF ~l.stats THEN l
    ELSE [l EXCEPT !.reqCt = @ + 1, !.reqLatency = Append(@, latency)]

EnableStats ==
    /\ legacy.pc = "idle"
    /\ legacy' = [legacy EXCEPT !.stats = TRUE]
    /\ UNCHANGED <<moreVars, baseVars, load, seen, locks, threads, asked>>

DisableStats ==
    /\ legacy.pc = "idle"
    /\ legacy' = [legacy EXCEPT !.stats = FALSE]
    /\ UNCHANGED <<moreVars, baseVars, load, seen, locks, threads, asked>>

\* entry of the legacy getSalt
LegacyCall ==
    /\ legacy.pc = "idle"
    /\ legacy.reqCt + legacy.reqErrCt < MaxLegacy
    /\ legacy' = [legacy EXCEPT !.pc = "loop", !.attempts = 0, !.pct = NoPct,
                                !.requests = 0, !.failed = 0, !.plain = 0, !.errs0 = legacy.reqErrCt,
                                !.on = legacy.stats, !.panicked = FALSE, !.err = FALSE]
    /\ UNCHANGED <<moreVars, baseVars, load, seen, locks, threads, asked>>

\* what HTTPClient.Do and the rest of the legacy getSalt can meet: an answer
\* that decodes, an answer that does not (or is not a 200), an error that comes
\* with an encrypted response, an error without one
LegacyOutcomes == {"ok", "bad", "errTLS", "errPlain"}

\* One iteration of the loop of the legacy getSalt and, when it breaks, the
\* rest of the function with its deferred update of the counters.
LegacyDo(o) ==
    /\ legacy.pc = "loop"
    /\ legacy' =
          LET sent == [legacy EXCEPT !.requests = @ + 1,
                                     !.failed = IF o \in {"errTLS", "errPlain"} THEN @ + 1 ELSE @,
                                     !.plain = IF o = "errPlain" THEN @ + 1 ELSE @]
          IN IF o = "ok" THEN [incrSuccess(sent, 1) EXCEPT !.pc = "idle"]
             ELSE IF o = "bad" THEN [incrErrs(sent, 1) EXCEPT !.pc = "idle", !.err = TRUE]
             ELSE IF legacy.attempts > LegacyRetryLimit
                  THEN [sent EXCEPT !.pc = "idle", !.err = TRUE]
             ELSE IF o = "errPlain" THEN [sent EXCEPT !.pc = "idle", !.panicked = TRUE]
             ELSE [incrErrs(sent, 0) EXCEPT !.attempts = @ + 1]
    /\ UNCHANGED <<moreVars, baseVars, load, seen, locks, threads, asked>>

\* the application reads ErrorPct()
CallErrorPct ==
    /\ legacy.pc = "idle"
    /\ legacy' = [legacy EXCEPT !.pct = ErrorPct(legacy)]
    /\ UNCHANGED <<moreVars, baseVars, load, seen, locks, threads, asked>>

NextLegacy ==
    \/ EnableStats
    \/ DisableStats
    \/ LegacyCall
    \/ \E o \in LegacyOutcomes : LegacyDo(o)
    \/ CallErrorPct

SpecLegacy == Init /\ [][NextLegacy]_vars

\* --------------------------------------------------------------------- C24
\* the requests counted, with and without error, and the share of the former
Counted == legacy.reqCt + legacy.reqErrCt
Percentage == (100 * legacy.reqErrCt) \div Counted

\* C24: in every reachable state of the request and error counters, the state
\* without requests and without errors included, ErrorPct() returns without
\* failing, and what it returns is the percentage of requests that ended in error.
C24_ErrorPctIsPercentage ==
    legacy.pct.called =>
        /\ ~legacy.pct.panic
        /\ Counted > 0 => legacy.pct.value = Percentage

\* ================================================= the store under its locks
\* sync.RWMutex
\* variant: Lock does not wait for the holder
CanLock_NoWait(m) == TRUE

CanLock(m) == m.w = "" /\ m.r = {}
CanRLock(m) == m.w = ""
Lock(m, g) == [m EXCEPT !.w = g]
Unlock(m) == [m EXCEPT !.w = ""]
RLock(m, g) == [m EXCEPT !.r = @ \cup {g}]
RUnlock(m, g) == [m EXCEPT !.r = @ \ {g}]

\* the operations of statistics that take s.mu.Lock() and touch a host's record
StoreOps == AddOps \cup {"Get"}
\* the methods of hostStatistics that take s.mu.RLock(), and Errors, which takes s.mu.Lock()
RLockedReads == {"Requests", "Latency", "Timeouts", "ErrorRate", "Last"}
ReadOps == RLockedReads \cup {"Errors"}

\* statistics.Enable, a short section under s.mu.Lock()
LockedEnable ==
    /\ CanLock(locks.mu)
    /\ ~enabled
    /\ enabled' = TRUE
    /\ UNCHANGED <<stats, options, RetryLimit, now, pc, frameVars, protocolVars, rankVars,
                   auxVars>>

\* Add* and Get: s.mu.Lock()
StoreLock(g, op, h) ==
    /\ threads[g].pc = "idle"
    /\ op \in AddOps => TotalEvents(stats) < MaxEvents
    /\ CanLock(locks.mu)
    /\ locks' = [locks EXCEPT !.mu = Lock(@, g)]
    /\ threads' = [threads EXCEPT ![g] = [@ EXCEPT !.pc = "locked", !.op = op, !.host = h]]
    /\ UNCHANGED <<moreVars, baseVars, load, seen, legacy, asked>>

\* Add* and Get: the body, with s.mu held
StoreWrite(g) ==
    /\ threads[g].pc = "locked"
    /\ LET op == threads[g].op
           h == threads[g].host
       IN stats' = IF op = "AddSuccess" THEN AddSuccessTo(stats, enabled, h, 1, now)
                   ELSE IF op = "AddError" THEN AddErrorTo(stats, enabled, h, 503, now)
                   ELSE IF op = "AddTimeout" THEN AddTimeoutTo(stats, enabled, h, now)
                   ELSE init(stats, h)
    /\ threads' = [threads EXCEPT ![g] = [@ EXCEPT !.pc = "written"]]
    /\ UNCHANGED <<moreVars, enabled, options, RetryLimit, now, pc, frameVars, protocolVars, rankVars,
                   load, seen, legacy, locks, asked>>

\* Add* and Get: the deferred s.mu.Unlock(); Get returns the pointer
StoreUnlock(g) ==
    /\ threads[g].pc = "written"
    /\ locks' = [locks EXCEPT !.mu = Unlock(@)]
    /\ threads' = [threads EXCEPT ![g] =
                      [Idle EXCEPT !.ptr = IF threads[g].op = "Get" THEN threads[g].host
                                           ELSE threads[g].ptr]]
    /\ UNCHANGED <<moreVars, baseVars, load, seen, legacy, asked>>

\* a method of the HostStats the goroutine holds: the lock of that record
ReadLock(g, m) ==
    /\ threads[g].pc = "idle"
    /\ threads[g].ptr # ""
    /\ LET h == threads[g].ptr
       IN /\ IF m = "Errors" THEN CanLock(locks.hmu[h]) ELSE CanRLock(locks.hmu[h])
          /\ locks' = [locks EXCEPT !.hmu[h] = IF m = "Errors" THEN Lock(@, g)
                                               ELSE RLock(@, g)]
          /\ threads' = [threads EXCEPT ![g] = [@ EXCEPT !.pc = "reading", !.op = m,
                                                         !.host = h]]
    /\ UNCHANGED <<moreVars, baseVars, load, seen, legacy, asked>>

\* the method has read the sequences and releases the lock; Last goes on to
\* read the timestamps of s.latency, s.errors and s.timeouts after that
ReadUnlock(g) ==
    /\ threads[g].pc = "reading"
    /\ LET h == threads[g].host
       IN locks' = [locks EXCEPT !.hmu[h] = IF threads[g].op = "Errors" THEN Unlock(@)
                                            ELSE RUnlock(@, g)]
    /\ threads' = [threads EXCEPT ![g] =
                      IF threads[g].op = "Last" THEN [@ EXCEPT !.pc = "filtering"]
                      ELSE [Idle EXCEPT !.ptr = threads[g].ptr]]
    /\ UNCHANGED <<moreVars, baseVars, load, seen, legacy, asked>>

\* Last returns the record it built
ReadDone(g) ==
    /\ threads[g].pc = "filtering"
    /\ threads' = [threads EXCEPT ![g] = [Idle EXCEPT !.ptr = threads[g].ptr]]
    /\ UNCHANGED <<moreVars, baseVars, load, seen, legacy, locks, asked>>

NextLocks ==
    \/ LockedEnable
    \/ \E g \in Goroutines, op \in StoreOps, h \in Hosts : StoreLock(g, op, h)
    \/ \E g \in Goroutines : StoreWrite(g)
    \/ \E g \in Goroutines : StoreUnlock(g)
    \/ \E g \in Goroutines, m \in ReadOps : ReadLock(g, m)
    \/ \E g \in Goroutines : ReadUnlock(g)
    \/ \E g \in Goroutines : ReadDone(g)

SpecLocks == Init /\ [][NextLocks]_vars

\* --------------------------------------------------------------------- C25
\* goroutine g is about to append to the sequences of host h
Writes(g, h) ==
    threads[g].pc = "locked" /\ threads[g].op \in AddOps /\ threads[g].host = h /\ enabled
\* goroutine g is reading the sequences of host h
Reads(g, h) == threads[g].pc \in {"reading", "filtering"} /\ threads[g].host = h

\* C25: reads through a HostStats obtained from Get and Add* writes to the same
\* host's sequences exclude each other: never is one goroutine inside a read
\* method of a host while another is inside an Add* that appends to that host.
C25_ReadersExcludeWriters ==
    \A g1, g2 \in Goroutines, h \in Hosts : ~(g1 # g2 /\ Writes(g1, h) /\ Reads(g2, h))

\* ================================================= calls with several servers
\* what an attempt of a salt request can meet, one exchange for each branch of
\* the loop: timeout, no response, unreadable body, server error, the server's
\* answer (a client error for a hash it rejects), an answer that does not decode
CallExchanges ==
    {TimeoutExchange, TransportExchange, BrokenResponse(200, Text(<<"e">>)),
     Response(503, Text(<<"e">>), 1),
     ServerAnswer(URI(call), latest), Response(200, Text(<<"e">>), 1)}

\* NewPassword and VerifyPassword of one password hash; a call may start while
\* events of earlier calls are stored
NewPasswordCall == BeginWithin([NoCall EXCEPT !.op = "NewPassword", !.hash = testHashBytes],
                               MaxEvents)
BadPasswordCall == BeginWithin([NoCall EXCEPT !.op = "NewPassword", !.hash = <<10>>],
                               MaxEvents)
VerifyPasswordCall(e) ==
    BeginWithin([op |-> "VerifyPassword", hash |-> testHashBytes, expected |-> e,
                 versionID |-> 0], MaxEvents)

NextCalls ==
    \/ Enable
    \/ Load(TRUE, <<"foo.com", "bar.com">>)
    \/ NewPasswordCall
    \/ BadPasswordCall
    \/ \E e \in ExpectedInputs : VerifyPasswordCall(e)
    \/ \E o \in CallExchanges : Attempt(o)
    \/ LoopExit
    \/ FinishNewPassword
    \/ FinishVerifyPassword
    \/ Return

SpecCalls == Init /\ [][NextCalls]_vars

\* --------------------------------------------------------------------- C26
\* this step is an HTTP attempt, made to host h
AttemptMadeTo(h) == Len(trace') = Len(trace) + 1 /\ trace'[Len(trace')].host = h

\* C26: with statistics enabled, every HTTP attempt of getFromAPI records
\* exactly one event, for the host it was made to, and no other step of
\* NewPassword or VerifyPassword writes to the store: each step adds one event
\* to a host's record if it is an attempt on that host, and none otherwise, so
\* the events recorded equal the attempts made.
C26_OneEventPerAttempt ==
    [][enabled => \A h \in AllHosts :
           EventsOf(stats', h) = EventsOf(stats, h) + (IF AttemptMadeTo(h) THEN 1 ELSE 0)]_vars

\* the second recorded call, after three attempts on two hosts: one event
\* stored before it, four events after it
C26_Witness ==
    /\ pc = "done" /\ enabled /\ InProtocolCall
    /\ TotalEvents(stats0) = 1 /\ Len(trace) = 3 /\ TotalEvents(stats) = 4
    /\ trace[1].host # trace[2].host
    /\ EventsOf(stats, trace[2].host) = 1

\* ======================================================== the store in use
\* the windows asked of Last: a minute and a second, each also as a negative duration
Windows == {Minute, 0 - Minute, RetryDelay, 0 - RetryDelay}

\* c.Stats().Get(h).Last(w): the caller looks at what it was given
CallLast(h, w) ==
    /\ pc = "idle"
    /\ stats' = init(stats, h)
    /\ held' = LastResult(stats, h, w, now)
    /\ asked' = [host |-> h, window |-> w, full |-> HostRecord(stats, h)]
    /\ pc' = "kept"
    /\ UNCHANGED <<moreVars, enabled, options, RetryLimit, now, frameVars, protocolVars, ranked, picked,
                   load, seen, legacy, locks, threads>>

\* the caller drops the record it was given and goes on
Release ==
    /\ pc = "kept"
    /\ pc' = "idle"
    /\ held' = NoHostStats
    /\ asked' = NoAsk
    /\ UNCHANGED <<moreVars, enabled, stats, options, RetryLimit, now, frameVars, protocolVars,
                   ranked, picked, load, seen, legacy, locks, threads>>

NextStore ==
    \/ Enable
    \/ Disable
    \/ \E h \in Hosts : RecordSuccess(h, 1)
    \/ \E h \in Hosts : RecordError(h, 503)
    \/ \E h \in Hosts : RecordTimeout(h)
    \/ \E h \in Hosts : Get(h)
    \/ Load(TRUE, <<"foo.com", "bar.com">>)
    \/ Elapse
    \/ \E h \in Hosts, w \in Windows : CallLast(h, w)
    \/ Release
    \/ \E order \in Orders(DOMAIN stats) : CallHosts(order)
    \/ Forget

SpecStore == Init /\ [][NextStore]_vars

\* --------------------------------------------------------------------- C27
PrefixOf(a, b) == Len(a) <= Len(b) /\ SubSeq(b, 1, Len(a)) = a

\* the events Get(h) reports after a step continue the ones it reported before
Continued(h) ==
    /\ PrefixOf(HostRecord(stats, h).latency, HostRecord(stats', h).latency)
    /\ PrefixOf(HostRecord(stats, h).errors, HostRecord(stats', h).errors)
    /\ PrefixOf(HostRecord(stats, h).timeouts, HostRecord(stats', h).timeouts)

\* C27: statistics are append-only: across Add*, Get, Last, Hosts, SetServers,
\* Enable and Disable, for every host and every kind of event the events
\* Get(host) reports are never fewer than before, and an event once recorded
\* keeps its code, latency and place.
C27_AppendOnly == [][\A h \in AllHosts : Continued(h)]_vars

\* two events are stored for a host, statistics were disabled afterwards, the
\* servers were set, and Get and Last have run on the stored events
C27_Witness ==
    /\ ~enabled /\ ~options.isNil /\ pc = "kept"
    /\ held.kind = "own" /\ Len(held.own.errors) = 1
    /\ TotalEvents(stats) = 2 /\ ErrorsLen(stats, held.host) = 1
    /\ Requests(stats, held.host) = 1

\* --------------------------------------------------------------------- C28
Failures(hs) == Len(hs.errors) + Len(hs.timeouts)
AllEvents(hs) == Failures(hs) + Len(hs.latency)

\* the rate of a record is the quotient of its failures by its events, 0 for a
\* record without events; it lies in [0, 1], is 0 exactly without failures and
\* 1 exactly with failures and without a success
RateAsClaimed(hs) ==
    LET r == ErrorRate(hs)
    IN /\ r.den > 0
       /\ AllEvents(hs) = 0 => r.num = 0
       /\ AllEvents(hs) > 0 => r.num * AllEvents(hs) = Failures(hs) * r.den
       /\ 0 <= r.num /\ r.num <= r.den
       /\ r.num = 0 <=> Failures(hs) = 0
       /\ r.num = r.den <=> (Failures(hs) > 0 /\ Len(hs.latency) = 0)

\* C28: ErrorRate() of a snapshot is (errors + timeouts) / (errors + timeouts
\* + successes), and 0 for a snapshot without events: for the record of every
\* host, for its last minute and for the snapshot Last returned.
C28_ErrorRate ==
    /\ \A h \in Hosts : RateAsClaimed(HostRecord(stats, h)) /\ RateAsClaimed(Recent(h))
    /\ Kept => RateAsClaimed(Reported(held, stats))

\* a snapshot of the last second holding a timeout, next to a full record
\* with an earlier success: rate 1 of the snapshot, 1/2 of the record
C28_Witness ==
    /\ pc = "kept" /\ held.kind = "own"
    /\ Len(held.own.timeouts) = 1 /\ AllEvents(held.own) = 1
    /\ ErrorRate(held.own) = [num |-> 1, den |-> 1]
    /\ ErrorRate(HostRecord(stats, held.host)) = [num |-> 1, den |-> 2]

\* --------------------------------------------------------------------- C29
Magnitude(w) == IF w < 0 THEN 0 - w ELSE w

\* the events of a sequence whose timestamp is not earlier than u, in order
NotEarlier(q, u) == SelectSeq(q, LAMBDA e : e.ts >= u)

\* the record Last was asked about, as Get reports it now
AskedRecord == HostRecord(stats, asked.host)

\* C29: Last(window) returns exactly the success, error and timeout events of
\* the host whose timestamp is not earlier than now - |window|; a window of the
\* opposite sign gives the same record; the full record is what it was before
\* the call.
C29_LastIsTrailingWindow ==
    pc = "kept" =>
        LET u == now - Magnitude(asked.window)
        IN /\ held.own.latency = NotEarlier(AskedRecord.latency, u)
           /\ held.own.errors = NotEarlier(AskedRecord.errors, u)
           /\ held.own.timeouts = NotEarlier(AskedRecord.timeouts, u)
           /\ held.own = Last(AskedRecord, 0 - asked.window, now)
           /\ AskedRecord = asked.full

\* Last(time.Second) a minute after the first of two events: the later event
\* is in the record returned, the earlier one is not
C29_Witness ==
    /\ pc = "kept" /\ asked.window = RetryDelay
    /\ AllEvents(AskedRecord) = 2 /\ AllEvents(held.own) = 1
    /\ Len(AskedRecord.latency) = 2 /\ held.own.latency = <<AskedRecord.latency[2]>>

\* the same with the window given as a negative duration
C29_NegativeWindow ==
    /\ pc = "kept" /\ asked.window = 0 - RetryDelay
    /\ AllEvents(AskedRecord) = 2 /\ AllEvents(held.own) = 1

\* --------------------------------------------------------------------- C30
Configured == {Servers(options)[k] : k \in DOMAIN Servers(options)}
SeveralServers == Len(Servers(options)) >= 2

\* the store holds a record for each configured server and no event
FreshStore == DOMAIN stats = Configured /\ TotalEvents(stats) = 0

\* C30: with several configured servers Config.Host(0) is the first configured
\* server, whatever the statistics are, and while no host has a recorded event
\* Hosts() returns the hosts in their configured order.
C30_PreferredFirst ==
    /\ (pc = "picked" /\ picked.i = 0 /\ SeveralServers) => picked.host = Servers(options)[1]
    /\ (pc = "ranked" /\ SeveralServers /\ FreshStore) => ranked = Servers(options)

\* ==================================================== concurrent Add* calls
\* the slice of a host's record an Add* appends to, the element it appends,
\* and the record with that slice replaced
SeqOf(hs, op) == IF op = "AddSuccess" THEN hs.latency
                 ELSE IF op = "AddError" THEN hs.errors
                 ELSE hs.timeouts
EventOf(op, t) == IF op = "AddSuccess" THEN [ts |-> t, latency |-> 1]
                  ELSE IF op = "AddError" THEN [ts |-> t, code |-> 503]
                  ELSE [ts |-> t]
WithSeq(hs, op, q) == IF op = "AddSuccess" THEN [hs EXCEPT !.latency = q]
                      ELSE IF op = "AddError" THEN [hs EXCEPT !.errors = q]
                      ELSE [hs EXCEPT !.timeouts = q]

\* Add*, s.mu held: return unless enabled; s.init(host); the operand of
\* append, s.stats[host].latency (errors, timeouts), is read
AddRead(g) ==
    /\ threads[g].pc = "locked"
    /\ threads[g].op \in AddOps
    /\ LET op == threads[g].op
           h == threads[g].host
       IN IF ~enabled
          THEN /\ threads' = [threads EXCEPT ![g] = [@ EXCEPT !.pc = "written"]]
               /\ UNCHANGED <<stats, local>>
          ELSE /\ stats' = init(stats, h)
               /\ local' = [local EXCEPT ![g] = SeqOf(init(stats, h)[h], op)]
               /\ threads' = [threads EXCEPT ![g] = [@ EXCEPT !.pc = "appending"]]
    /\ UNCHANGED <<baseVarsButStats, load, seen, legacy, locks, asked, host, issued, loaded, avg>>

\* Add*, s.mu held: the slice with the new element is stored in the record
AddAppend(g) ==
    /\ threads[g].pc = "appending"
    /\ LET op == threads[g].op
           h == threads[g].host
       IN stats' = [stats EXCEPT ![h] = WithSeq(@, op, Append(local[g], EventOf(op, now)))]
    /\ local' = [local EXCEPT ![g] = <<>>]
    /\ threads' = [threads EXCEPT ![g] = [@ EXCEPT !.pc = "written"]]
    /\ UNCHANGED <<baseVarsButStats, load, seen, legacy, locks, asked, host, issued, loaded, avg>>

\* Add*: the deferred s.mu.Unlock() and the return to the caller
AddReturn(g) ==
    /\ threads[g].pc = "written"
    /\ threads[g].op \in AddOps
    /\ locks' = [locks EXCEPT !.mu = Unlock(@)]
    /\ issued' = IF enabled
                 THEN [issued EXCEPT ![threads[g].host][threads[g].op] = @ + 1]
                 ELSE issued
    /\ threads' = [threads EXCEPT ![g] = [Idle EXCEPT !.ptr = threads[g].ptr]]
    /\ UNCHANGED <<baseVars, load, seen, legacy, asked, host, local, loaded, avg>>

NextAdds ==
    \/ LockedEnable
    \/ \E g \in Goroutines, op \in AddOps, h \in Hosts : StoreLock(g, op, h)
    \/ \E g \in Goroutines : AddRead(g)
    \/ \E g \in Goroutines : AddAppend(g)
    \/ \E g \in Goroutines : AddReturn(g)

SpecAdds == Init /\ [][NextAdds]_vars

\* --------------------------------------------------------------------- C31
\* every Add* call has returned
Quiet == \A g \in Goroutines : threads[g].pc = "idle"

IssuedTotal == SumOver(Hosts \X AddOps, [x \in Hosts \X AddOps |-> issued[x[1]][x[2]]])

\* C31: no lost updates: when the Add* calls that goroutines made concurrently
\* with statistics enabled have all returned, the store holds one event for
\* each of them, under the host and in the slice of the kind it was added
\* with, and no other event.
C31_NoLostUpdates ==
    Quiet =>
        /\ \A h \in Hosts, k \in AddOps : Len(SeqOf(HostRecord(stats, h), k)) = issued[h][k]
        /\ \A h \in Hosts : \A i \in 1..Len(HostRecord(stats, h).errors) :
              HostRecord(stats, h).errors[i].code = 503
        /\ TotalEvents(stats) = IssuedTotal

\* two calls of different kinds on a host that had no record, both returned
C31_Witness ==
    /\ Quiet /\ IssuedTotal = 2 /\ "foo.com" \notin DOMAIN stats
    /\ issued["bar.com"]["AddTimeout"] = 1 /\ issued["bar.com"]["AddError"] = 1
    /\ stats["bar.com"].latency = <<>>

\* --------------------------------------------------------------------- C32
\* everything but the enabled flag
allButEnabled == <<stats, options, RetryLimit, now, pc, frameVars, protocolVars, rankVars,
                   auxVars>>

\* a step of Enable() or Disable() that changes the flag
FlagChanges == enabled' # enabled

\* C32: Enable() and Disable() change only the enabled flag; while disabled no
\* step changes the events Get reports for any host, and Last, called while
\* disabled, returns the events of its window among those recorded before; in
\* every step, after a later Enable() too, the events of a host continue the
\* ones recorded before.
C32_EnableDisableOnlyFlag ==
    /\ [][/\ FlagChanges => UNCHANGED allButEnabled
          /\ ~enabled => EventsView(stats') = EventsView(stats)
          /\ \A h \in AllHosts : Continued(h)]_vars
    /\ []((pc = "kept" /\ ~enabled) =>
             /\ held.own = Last(HostRecord(stats, asked.host), asked.window, now)
             /\ HostRecord(stats, asked.host) = asked.full)

\* an error recorded while enabled, statistics disabled, enabled again and a
\* success recorded after the error, disabled again, and Last read while disabled
C32_Witness ==
    /\ ~enabled /\ pc = "kept" /\ asked.window = Minute
    /\ Len(held.own.errors) = 1 /\ Len(held.own.latency) = 1
    /\ held.own.errors[1].ts < held.own.latency[1].ts
    /\ held.own = HostRecord(stats, asked.host)

\* =================================================== the retry limit as set
\* the values an application may assign to the package variable RetryLimit
RetryLimits == (0 - 1)..DefaultRetryLimit

\* taplink.RetryLimit = n
SetRetryLimit(n) ==
    /\ pc = "idle"
    /\ RetryLimit' = n
    /\ UNCHANGED <<auxVars, rankVars, enabled, stats, options, now, pc, frameVars, protocolVars>>

NextLimit ==
    \/ \E n \in RetryLimits : SetRetryLimit(n)
    \/ Enable
    \/ CallGetFromAPI
    \/ \E o \in Exchanges : Attempt(o)
    \/ LoopExit
    \/ Finish
    \/ Return

SpecLimit == Init /\ [][NextLimit]_vars

\* --------------------------------------------------------------------- C33
\* C33: for every value of RetryLimit, zero and negative values included, and
\* every sequence of attempt outcomes, getFromAPI returns a non-empty body
\* with a nil error or a non-nil error, never a nil error with an empty body.
C33_BodyOrError ==
    (Returned /\ call.op = "getFromAPI") => (err = NilErr => BodyLen(respBody) > 0)

\* ================================================== Config.Load as a whole
\* Config.LastModified
LastModified(opt) == IF opt.isNil THEN ZeroTime ELSE Unix(opt.LastModified)

\* what the options request of Load can meet: a transport error, a status
\* other than 200, a 200 body that is not JSON, a 200 body that is JSON with
\* "lastModified" of a type that does not fit, a 200 body that decodes
LoadOutcomes == {"transport", "status", "syntax", "type", "ok"}

\* c.options when Load returns: made non-nil first; Decode(c.options) stores
\* nothing for a body it cannot scan, and stores the fields that fit, skipping
\* the one that does not, for a body with a field of the wrong type
OptionsAfterLoad(opt, o, servers) ==
    LET made == IF opt.isNil THEN [NilOptions EXCEPT !.isNil = FALSE] ELSE opt
    IN IF o = "ok" THEN [isNil |-> FALSE, Servers |-> servers, LastModified |-> 1]
       ELSE IF o = "type" THEN [made EXCEPT !.Servers = servers]
       ELSE made

\* Config.Load, called between requests
CallLoad(o, servers) ==
    /\ pc = "idle"
    /\ options' = OptionsAfterLoad(options, o, servers)
    /\ stats' = IF o = "ok" THEN SetServersFrom(stats, servers) ELSE stats
    /\ loaded' = [called |-> TRUE, failed |-> (o # "ok"), servers |-> Servers(options),
                  modified |-> LastModified(options)]
    /\ UNCHANGED <<enabled, RetryLimit, now, pc, frameVars, protocolVars, rankVars,
                   load, seen, legacy, locks, threads, asked, host, issued, local, avg>>

NextLoad ==
    \/ \E o \in LoadOutcomes, servers \in LoadLists : CallLoad(o, servers)
    \/ Enable
    \/ \E h \in Hosts : RecordSuccess(h, 1)
    \/ \E h \in Hosts : RecordTimeout(h)
    \/ \E h \in Hosts : Get(h)

SpecLoad == Init /\ [][NextLoad]_vars

\* --------------------------------------------------------------------- C34
\* C34: Config.Load is all-or-nothing: after a Load that returned an error,
\* Servers() and LastModified() return what they returned before the call;
\* after a Load that succeeded every server of the list has a record in the
\* statistics store.
C34_LoadAllOrNothing ==
    loaded.called =>
        IF loaded.failed
        THEN Servers(options) = loaded.servers /\ LastModified(options) = loaded.modified
        ELSE \A i \in DOMAIN Servers(options) : Servers(options)[i] \in DOMAIN stats

\* the success half taken alone
C34_SuccessRecords ==
    (loaded.called /\ ~loaded.failed) =>
        \A i \in DOMAIN Servers(options) : Servers(options)[i] \in DOMAIN stats

\* ============================================ the host map and its lock
\* statistics.Hosts: s.mu.RLock()
HostsRLock(g) ==
    /\ threads[g].pc = "idle"
    /\ CanRLock(locks.mu)
    /\ locks' = [locks EXCEPT !.mu = RLock(@, g)]
    /\ threads' = [threads EXCEPT ![g] = [@ EXCEPT !.pc = "ranking", !.op = "Hosts"]]
    /\ UNCHANGED <<baseVars, load, seen, legacy, asked, moreVars>>

\* statistics.Hosts: the range over s.stats, the sort, the deferred RUnlock
HostsReturn(g, order) ==
    /\ threads[g].pc = "ranking"
    /\ ranked' = StatsHosts(stats, order, now)
    /\ locks' = [locks EXCEPT !.mu = RUnlock(@, g)]
    /\ threads' = [threads EXCEPT ![g] = [Idle EXCEPT !.ptr = threads[g].ptr]]
    /\ UNCHANGED <<enabled, stats, options, RetryLimit, now, pc, frameVars, protocolVars,
                   picked, held, load, seen, legacy, asked, moreVars>>

\* Config.Load decoded its answer and calls SetServers(servers), which takes
\* no lock: the goroutine is in the loop, the servers still to initialise kept
SetServersEnter(g, servers) ==
    /\ threads[g].pc = "idle"
    /\ options' = [isNil |-> FALSE, Servers |-> servers, LastModified |-> 1]
    /\ local' = [local EXCEPT ![g] = servers]
    /\ threads' = [threads EXCEPT ![g] = [@ EXCEPT !.pc = "setting", !.op = "SetServers"]]
    /\ UNCHANGED <<enabled, stats, RetryLimit, now, pc, frameVars, protocolVars, rankVars,
                   load, seen, legacy, locks, asked, host, issued, loaded, avg>>

\* SetServers: s.init(servers[i]), a lookup in the map and an insert
SetServersInit(g) ==
    /\ threads[g].pc = "setting"
    /\ local[g] # <<>>
    /\ stats' = init(stats, Head(local[g]))
    /\ local' = [local EXCEPT ![g] = Tail(@)]
    /\ UNCHANGED <<baseVarsButStats, load, seen, legacy, locks, threads, asked, host, issued,
                   loaded, avg>>

\* SetServers and Load return
SetServersReturn(g) ==
    /\ threads[g].pc = "setting"
    /\ local[g] = <<>>
    /\ threads' = [threads EXCEPT ![g] = [Idle EXCEPT !.ptr = threads[g].ptr]]
    /\ UNCHANGED <<baseVars, load, seen, legacy, locks, asked, moreVars>>

\* the requests record successes here; the other Add* take the lock the same way
MapOps == {"AddSuccess", "Get"}

NextMap ==
    \/ LockedEnable
    \/ \E g \in Goroutines, op \in MapOps, h \in Hosts : StoreLock(g, op, h)
    \/ \E g \in Goroutines : StoreWrite(g)
    \/ \E g \in Goroutines : StoreUnlock(g)
    \/ \E g \in Goroutines : HostsRLock(g)
    \/ \E g \in Goroutines, order \in Orders(DOMAIN stats) : HostsReturn(g, order)
    \/ \E g \in Goroutines, servers \in ServerLists : SetServersEnter(g, servers)
    \/ \E g \in Goroutines : SetServersInit(g)
    \/ \E g \in Goroutines : SetServersReturn(g)

SpecMap == Init /\ [][NextMap]_vars

\* --------------------------------------------------------------------- C35
\* goroutine g is at a read or a write of the map s.stats
ReadsMap(g) == threads[g].pc = "ranking"
WritesMap(g) == threads[g].pc = "locked" \/ (threads[g].pc = "setting" /\ local[g] # <<>>)
HoldsLock(g) == locks.mu.w = g \/ g \in locks.mu.r

\* C35: every read or write of the host map happens with the store's lock
\* held, in Add*, Get, Hosts and in SetServers as Config.Load calls it, so a
\* Load never accesses the map at the same time as an Add*, Get or Hosts call.
C35_MapUnderLock ==
    /\ \A g \in Goroutines : (ReadsMap(g) \/ WritesMap(g)) => HoldsLock(g)
    /\ \A g1, g2 \in Goroutines :
          (g1 # g2 /\ WritesMap(g1)) => ~(ReadsMap(g2) \/ WritesMap(g2))

\* the same for the entry points other than SetServers
C35_LockedEntryPoints ==
    \A g \in Goroutines :
        (threads[g].pc \in {"locked", "ranking"}) =>
            /\ HoldsLock(g)
            /\ \A g2 \in Goroutines \ {g} : threads[g2].pc \notin {"locked", "ranking"}
                                            \/ (ReadsMap(g) /\ ReadsMap(g2))

\* ======================================== an attempt, from choice to record
\* variant: the host is asked of the configuration again when the event is recorded
RecordedHost_Reselected(selected, opt, n) == Host(opt, n - 1)

\* the host argument of c.Stats().Add*: the local variable host, set once in
\* the iteration, n being the value of attempts after its increment
RecordedHost(selected, opt, n) == selected

\* the head of the loop body: the sleep before a retry, host chosen by
\* c.Config().Host(attempts), attempts incremented, the request sent
AttemptSelect ==
    /\ pc = "loop"
    /\ LoopCond(attempts, RetryLimit)
    /\ now' = IF Sleeps(attempts) THEN now + RetryDelay ELSE now
    /\ sleeps' = IF Sleeps(attempts) THEN sleeps + 1 ELSE sleeps
    /\ host' = Host(options, attempts)
    /\ attempts' = attempts + 1
    /\ pc' = "request"
    /\ UNCHANGED <<enabled, stats, options, RetryLimit, call, resp, respBody, err, last, trace,
                   stats0, t0, protocolVars, rankVars,
                   load, seen, legacy, locks, threads, asked, issued, local, loaded, avg>>

\* Config.Load on another goroutine while the request is under way
LoadDuring(servers) ==
    /\ pc = "request"
    /\ options' = [isNil |-> FALSE, Servers |-> servers, LastModified |-> 1]
    /\ stats' = SetServersFrom(stats, servers)
    /\ UNCHANGED <<enabled, RetryLimit, now, pc, frameVars, protocolVars, rankVars, auxVars>>

\* the rest of the loop body with exchange o: the event is recorded, the
\* iteration continues or the function returns
AttemptRecord(o) ==
    /\ pc = "request"
    /\ LET h == RecordedHost(host, options, attempts)
           br == Branch(o)
       IN /\ last' = o
          /\ trace' = Append(trace, TraceEntry(host, Sleeps(attempts - 1), o))
          /\ resp' = IF o.hasResp THEN o.status ELSE NoResp
          /\ stats' = Record(stats, enabled, h, o, br, now)
          /\ err' = ErrAfter(o, br)
          /\ respBody' = BodyAfter(o, br, respBody)
          /\ pc' = IF Continues(br) THEN "loop" ELSE "returned"
    /\ UNCHANGED <<enabled, options, RetryLimit, now, call, attempts, sleeps, stats0, t0,
                   protocolVars, rankVars, auxVars>>

\* one exchange for each branch of the loop body
AttemptExchanges ==
    {TimeoutExchange, TransportExchange, BrokenResponse(200, Text(<<"e">>)),
     Response(503, Text(<<"e">>), 1), Response(404, Text(<<"e">>), 1),
     Response(200, Text(<<"e">>), 1)}

NextAttempts ==
    \/ Enable
    \/ \E servers \in ServerLists : Load(TRUE, servers)
    \/ CallGetFromAPI
    \/ AttemptSelect
    \/ \E servers \in LoadLists : LoadDuring(servers)
    \/ \E o \in AttemptExchanges : AttemptRecord(o)
    \/ LoopExit
    \/ Finish
    \/ Return

SpecAttempts == Init /\ [][NextAttempts]_vars

\* --------------------------------------------------------------------- C36
\* this step chooses the host of an attempt; this step records its event
Selecting == pc = "loop" /\ pc' = "request"
Recording == pc = "request" /\ pc' # "request"

\* the list is the one the previous attempt chose its host from
ListUnchanged == host = Host(options, attempts - 1)

\* C36: the k-th attempt of a call chooses its host with index k - 1; with two
\* or more servers and the list unchanged it is not the host of the attempt
\* before; the event of the attempt is recorded under the host chosen for it,
\* and under no other, whatever the server list is by then.
C36_AttemptHost ==
    [][/\ Selecting =>
             /\ attempts' = Len(trace) + 1
             /\ host' = ExpectedHost(Servers(options), attempts' - 1)
             /\ (attempts >= 1 /\ Len(Servers(options)) >= 2 /\ ListUnchanged) => host' # host
       /\ Recording =>
             /\ trace'[Len(trace')].host = host
             /\ Len(trace') = attempts
             /\ enabled => \A h \in AllHosts :
                   EventsOf(stats', h) = EventsOf(stats, h) + (IF h = host THEN 1 ELSE 0)]_vars

\* the second attempt went to another host than the first, the server list
\* changed while its request was under way, and its event is under its host
C36_Witness ==
    /\ pc = "returned" /\ enabled /\ Len(trace) = 2
    /\ trace[1].host = "foo.com" /\ trace[2].host = "bar.com"
    /\ Servers(options) = <<"foo.com">>
    /\ EventsOf(stats, "bar.com") = 1 /\ EventsOf(stats, "foo.com") = 1

\* --------------------------------------------------------------------- C37
\* the hosts that have a record in the store
Known == DOMAIN stats

IsPermutationOf(l, S) ==
    /\ Len(l) = Cardinality(S)
    /\ {l[i] : i \in DOMAIN l} = S
    /\ \A i, j \in DOMAIN l : l[i] = l[j] => i = j

\* C37: Hosts() returns a permutation of the hosts that have a record, made by
\* SetServers or by Get or Add*: each of them once and no other host, whatever
\* was recorded; the call changes no host's events and no record.
C37_HostsPermutation ==
    /\ [](pc = "ranked" => IsPermutationOf(ranked, Known))
    /\ [][pc' = "ranked" => stats' = stats]_vars

\* no servers configured, a record made by an Add* with an error and one made
\* by another with a success: both hosts are returned, the second first
C37_Witness ==
    /\ pc = "ranked" /\ options.isNil /\ Known = Hosts
    /\ ranked = <<"bar.com", "foo.com">>
    /\ ErrorsLen(stats, "foo.com") = 1 /\ Requests(stats, "bar.com") = 1

\* ======================================================== average latency
\* latencies of the requests recorded here, in units of RetryDelay
AvgLatencies == {1, 2, 4}

\* c.Stats().Get(h).Latency().Avg(), or the same of Get(h).Last(time.Minute)
CallAvg(h, recent) ==
    /\ pc = "idle"
    /\ stats' = init(stats, h)
    /\ LET hs == IF recent THEN Last(init(stats, h)[h], Minute, now) ELSE init(stats, h)[h]
       IN avg' = [called |-> TRUE, of |-> Latency(hs), value |-> Avg(Latency(hs))]
    /\ UNCHANGED <<baseVarsButStats, load, seen, legacy, locks, threads, asked, host, issued,
                   local, loaded>>

NextAvg ==
    \/ Enable
    \/ \E h \in Hosts, lat \in AvgLatencies : RecordSuccess(h, lat)
    \/ \E h \in Hosts : RecordError(h, 503)
    \/ Elapse
    \/ \E h \in Hosts, recent \in BOOLEAN : CallAvg(h, recent)

SpecAvg == Init /\ [][NextAvg]_vars

\* --------------------------------------------------------------------- C38
\* v is the quotient of the sum of l by its length, truncated
IsTruncatedMean(v, l) ==
    /\ v * Len(l) <= SumSeq(l)
    /\ SumSeq(l) < (v + 1) * Len(l)

\* C38: Latency.Avg() returns the arithmetic mean of the success latencies of
\* the snapshot, truncated to an integer, and 0 for a snapshot without a
\* success event.
C38_AvgTruncatedMean ==
    avg.called =>
        IF Len(avg.of) = 0 THEN avg.value = 0 ELSE IsTruncatedMean(avg.value, avg.of)

\* two successes whose mean is not an integer
C38_Witness ==
    /\ avg.called /\ Len(avg.of) = 2 /\ SumSeq(avg.of) = 3 /\ avg.value = 1

\* a host that was never contacted, and a host with an error only
C38_NeverContacted ==
    /\ avg.called /\ avg.of = <<>> /\ avg.value = 0
    /\ \E h \in Hosts : ErrorsLen(stats, h) = 1 /\ Requests(stats, h) = 0

\* --------------------------------------------------------------------- C39
\* the latest legacy getSalt has ended, by a return or a panic
LegacyEnded == legacy.pc = "idle" /\ legacy.requests >= 1
\* each of its requests failed in the transport: an error and no response
AllTransportFailures == legacy.plain = legacy.requests
\* the errors the call added to the counter
ErrorsCounted == legacy.reqErrCt - legacy.errs0

\* C39: when every HTTP request of the legacy getSalt fails at the transport
\* level, RetryLimit + 1 requests are made, each failed attempt is counted as
\* an error when stats are enabled, and the call returns the error without a panic.
C39_LegacyRetries ==
    (LegacyEnded /\ AllTransportFailures) =>
        /\ ~legacy.panicked
        /\ legacy.err
        /\ legacy.requests = LegacyRetryLimit + 1
        /\ legacy.on => ErrorsCounted = legacy.requests

\* a call whose every request failed with an error that came with an
\* encrypted response: one request more than claimed, the last one not counted
C39_WithResponses ==
    (LegacyEnded /\ legacy.failed = legacy.requests /\ legacy.plain = 0) =>
        /\ legacy.requests = LegacyRetryLimit + 2
        /\ legacy.on => ErrorsCounted = LegacyRetryLimit + 1

====
